---- MODULE Spec2Model ----
(***************************************************************************)
(* Model of the Server-Side Row Model query engine                         *)
(* (src/widget-examples/ssrm_mode): the grid-state model, the SQL query    *)
(* builder and the orchestrator perform_ssrm_query.                        *)
(*                                                                         *)
(* SQL text is a sequence of atoms.  An atom is an indivisible run of      *)
(* characters: the fixed fragments of the builder's f-strings (" WHERE ",  *)
(* " LIKE ", ...) and the characters of request-supplied strings.  The     *)
(* quote characters (single, double, backquote) are always atoms of their  *)
(* own, wherever they come from, so that a quote supplied by a request is  *)
(* the same text as a quote written by the builder.                        *)
(*                                                                         *)
(* A Python Optional / a dict key that may be missing is a sequence of     *)
(* length 0 (None / missing) or 1 (the value).                             *)
(***************************************************************************)
EXTENDS Integers, Sequences, FiniteSets, TLC

VARIABLES options, escape_char, table, pc, main_query, count_query,
          total_count, results,
          fault, error, log, executed, response, other,
          manager_args, db_manager, connections

vars == <<options, escape_char, table, pc, main_query, count_query,
          total_count, results, fault, error, log, executed, response, other,
          manager_args, db_manager, connections>>

--------------------------------------------------------------------------
(* Python helpers *)

\* the atom of the backquote character, the escape character of MySQL
BQ == "BACKQUOTE"

None == <<>>

Some(x) == <<x>>

IsNone(opt) == Len(opt) = 0

\* dict.get(key, default)
DictGet(opt, default) == IF Len(opt) = 0 THEN default ELSE opt[1]

\* bool(x) of an Optional[list] / Optional[dict]: None and empty are falsy
Truthy(opt) == Len(opt) = 1 /\ Len(opt[1]) > 0

\* str(n) for an integer
PyInt(n) == <<ToString(n)>>

\* str(x) for an Optional[int]
PyOptInt(opt) == IF Len(opt) = 0 THEN <<"None">> ELSE PyInt(opt[1])

RECURSIVE JoinParts(_, _)
\* sep.join(parts)
JoinParts(parts, sep) ==
    IF Len(parts) = 0 THEN <<>>
    ELSE IF Len(parts) = 1 THEN parts[1]
    ELSE parts[1] \o sep \o JoinParts(Tail(parts), sep)

RECURSIVE ReplaceQuote(_)
\* s.replace("'", "''")
ReplaceQuote(s) ==
    IF Len(s) = 0 THEN <<>>
    ELSE (IF Head(s) = "'" THEN <<"'", "'">> ELSE <<Head(s)>>)
         \o ReplaceQuote(Tail(s))

RECURSIVE LStrip(_)
LStrip(s) == IF Len(s) > 0 /\ Head(s) = " " THEN LStrip(Tail(s)) ELSE s

RECURSIVE RStrip(_)
RStrip(s) ==
    IF Len(s) > 0 /\ s[Len(s)] = " " THEN RStrip(SubSeq(s, 1, Len(s) - 1))
    ELSE s

\* s.strip()
Strip(s) == LStrip(RStrip(s))

\* s.upper(), on the atoms a sort direction is made of
UpperAtom(a) ==
    CASE a = "asc" -> "ASC"
      [] a = "desc" -> "DESC"
      [] a = "Desc" -> "DESC"
      [] a = "sideways" -> "SIDEWAYS"
      [] a = "x" -> "X"
      [] a = "a" -> "A"
      [] a = "b" -> "B"
      [] OTHER -> a

Upper(s) == [i \in 1..Len(s) |-> UpperAtom(s[i])]

--------------------------------------------------------------------------
(* config.py *)

DEFAULT_TABLE_NAME == <<"demo_data">>

SUPPORTED_AGG_FUNCTIONS == {<<"sum">>, <<"avg">>, <<"count">>, <<"min">>, <<"max">>}

--------------------------------------------------------------------------
(* models.py: AgGridOptions *)

is_doing_grouping(o) == Truthy(o.rowGroupCols)

\* groupKeys or []
GroupKeysOrEmpty(o) == DictGet(o.groupKeys, <<>>)

\* get_row_group_column that returns the first group column at every depth
get_row_group_column_first(o) ==
    IF Truthy(o.rowGroupCols) THEN Some(o.rowGroupCols[1][1]) ELSE None

\* None is <<>>, a column descriptor d is <<d>>
get_row_group_column(o) ==
    IF Truthy(o.rowGroupCols)
       /\ Len(o.rowGroupCols[1]) > Len(GroupKeysOrEmpty(o))
    THEN Some(o.rowGroupCols[1][Len(GroupKeysOrEmpty(o)) + 1])
    ELSE None

page_size(o) ==
    IF IsNone(o.startRow) \/ IsNone(o.endRow) THEN 100
    ELSE o.endRow[1] - o.startRow[1]

--------------------------------------------------------------------------
(* query_builder.py: QueryBuilder.  o is ag_rows.options, ec the escape    *)
(* character, tn the table name.                                           *)

\* fragments of the f-strings that a request string may follow directly
OpEq == <<" =", " ">>

OpNe == <<" !=", " ">>

KwAnd == <<" AND", " ">>

escape_column(ec, column_name) == <<ec>> \o column_name \o <<ec>>

\* a column descriptor (dict) is truthy when it has a key
ColTruthy(col) == Len(col.id) + Len(col.field) > 0

\* col.get("id", col.get("field", ""))
IdThenField(col) == DictGet(col.id, DictGet(col.field, <<>>))

\* col.get("field", col.get("id", ""))
FieldThenId(col) == DictGet(col.field, DictGet(col.id, <<>>))

\* AggFunc without the check against SUPPORTED_AGG_FUNCTIONS
AggFunc_unchecked(value_col) == DictGet(value_col.aggFunc, <<"sum">>)

\* the aggregation function of one valueCols entry
AggFunc(value_col) ==
    LET agg_func == DictGet(value_col.aggFunc, <<"sum">>)
    IN IF agg_func \notin SUPPORTED_AGG_FUNCTIONS THEN <<"sum">> ELSE agg_func

\* one aggregation of the SELECT list
AggColumn(ec, value_col) ==
    LET agg_field == FieldThenId(value_col)
    IN AggFunc(value_col) \o <<"(">> \o escape_column(ec, agg_field) \o <<")">>
       \o <<" as ">> \o escape_column(ec, agg_field)

\* ag_rows.query as get_data_ssrm sets it
BaseQuery(tn) == <<"SELECT ", "*", " FROM ">> \o tn

create_select_sql(o, ec, tn) ==
    IF ~is_doing_grouping(o) THEN BaseQuery(tn)
    ELSE LET group_col == get_row_group_column(o)
         IN IF IsNone(group_col) \/ ~ColTruthy(group_col[1])
            THEN <<"SELECT ", "*", " FROM ">> \o tn
            ELSE LET vcs == o.valueCols[1]
                     cols_to_select ==
                        <<escape_column(ec, IdThenField(group_col[1]))>>
                        \o [i \in 1..Len(vcs) |-> AggColumn(ec, vcs[i])]
                        \o (IF Len(vcs) = 0
                            THEN << <<"count", "(", "*", ")", " as ", "\"", "count", "\"">> >>
                            ELSE <<>>)
                 IN <<"SELECT ">> \o JoinParts(cols_to_select, <<", ">>)
                    \o <<" FROM ">> \o tn

\* a literal written as it stands
EscapeLiteral_raw(s) == s

\* the literal of a group key or of a filter value
EscapeLiteral(s) == ReplaceQuote(s)

\* GroupKeyParts that names the column by id before field
GroupKeyParts_id(o, ec) ==
    IF ~Truthy(o.groupKeys) THEN <<>>
    ELSE LET keys == o.groupKeys[1]
             rgc == o.rowGroupCols[1]
             n == IF Len(keys) < Len(rgc) THEN Len(keys) ELSE Len(rgc)
         IN [index \in 1..n |->
                escape_column(ec, IdThenField(rgc[index]))
                \o OpEq \o <<"'">> \o ReplaceQuote(keys[index].s) \o <<"'">>]

\* the WHERE conditions of the expanded groups
GroupKeyParts(o, ec) ==
    IF ~Truthy(o.groupKeys) THEN <<>>
    ELSE LET keys == o.groupKeys[1]
             rgc == o.rowGroupCols[1]
             n == IF Len(keys) < Len(rgc) THEN Len(keys) ELSE Len(rgc)
         IN [index \in 1..n |->
                escape_column(ec, FieldThenId(rgc[index]))
                \o OpEq \o <<"'">> \o EscapeLiteral(keys[index].s) \o <<"'">>]

\* ValueFalsy that takes only a missing value as falsy
ValueFalsy_missing(v) == Len(v) = 0

\* a Python value is falsy: None, "", 0
ValueFalsy(v) == Len(v) = 0 \/ Len(v[1].s) = 0 \/ (~v[1].isStr /\ v[1].s = <<"0">>)

\* None is <<>>, a clause c is <<c>>
build_text_filter(ec, field_name, filter_config) ==
    LET condition_type == DictGet(filter_config.type, <<"contains">>)
        escaped_field == escape_column(ec, field_name)
        escaped_value == EscapeLiteral(filter_config.filter[1].s)
    IN IF condition_type = <<"notBlank">>
       THEN Some(escaped_field \o <<" IS NOT NULL">> \o KwAnd \o escaped_field
                 \o OpNe \o <<"'", "'">>)
       ELSE IF condition_type = <<"blank">>
       THEN Some(escaped_field \o <<" IS NULL", " OR ">> \o escaped_field
                 \o OpEq \o <<"'", "'">>)
       ELSE IF ValueFalsy(filter_config.filter) THEN None
       ELSE IF condition_type = <<"contains">>
       THEN Some(escaped_field \o <<" LIKE ", "'", "%">> \o escaped_value \o <<"%", "'">>)
       ELSE IF condition_type = <<"equals">>
       THEN Some(escaped_field \o OpEq \o <<"'">> \o escaped_value \o <<"'">>)
       ELSE IF condition_type = <<"startsWith">>
       THEN Some(escaped_field \o <<" LIKE ", "'">> \o escaped_value \o <<"%", "'">>)
       ELSE IF condition_type = <<"endsWith">>
       THEN Some(escaped_field \o <<" LIKE ", "'", "%">> \o escaped_value \o <<"'">>)
       ELSE IF condition_type = <<"notContains">>
       THEN Some(escaped_field \o <<" NOT LIKE ", "'", "%">> \o escaped_value \o <<"%", "'">>)
       ELSE None

\* FormatValue that writes the value as a quoted literal
FormatValue_quoted(v) == <<"'">> \o v.s \o <<"'">>

\* f"{v}" of a filter value: its text as it stands
FormatValue(v) == v.s

build_number_filter(ec, field_name, filter_config) ==
    LET condition_type == DictGet(filter_config.type, <<"equals">>)
        fv == DictGet(filter_config.filter, [isStr |-> FALSE, s |-> <<"0">>])
        filter_value == FormatValue(fv)
        escaped_field == escape_column(ec, field_name)
    IN IF condition_type = <<"equals">>
       THEN Some(escaped_field \o OpEq \o filter_value)
       ELSE IF condition_type = <<"greaterThan">>
       THEN Some(escaped_field \o <<" >", " ">> \o filter_value)
       ELSE IF condition_type = <<"lessThan">>
       THEN Some(escaped_field \o <<" <", " ">> \o filter_value)
       ELSE IF condition_type = <<"greaterThanOrEqual">>
       THEN Some(escaped_field \o <<" >=", " ">> \o filter_value)
       ELSE IF condition_type = <<"lessThanOrEqual">>
       THEN Some(escaped_field \o <<" <=", " ">> \o filter_value)
       ELSE IF condition_type = <<"inRange">>
       THEN Some(escaped_field \o <<" BETWEEN ">> \o filter_value \o KwAnd
                 \o FormatValue(DictGet(filter_config.filterTo, fv)))
       ELSE IF condition_type = <<"notBlank">>
       THEN Some(escaped_field \o <<" IS NOT NULL">> \o KwAnd \o escaped_field
                 \o OpNe \o <<"0">>)
       ELSE IF condition_type = <<"blank">>
       THEN Some(escaped_field \o <<" IS NULL", " OR ">> \o escaped_field
                 \o OpEq \o <<"0">>)
       ELSE None

\* build_set_filter that lists the first value only
build_set_filter_first(ec, field_name, filter_config) ==
    IF ~Truthy(filter_config.values) THEN None
    ELSE Some(escape_column(ec, field_name) \o <<" IN ", "(", "'">>
              \o EscapeLiteral(filter_config.values[1][1].s) \o <<"'", ")">>)

build_set_filter(ec, field_name, filter_config) ==
    IF ~Truthy(filter_config.values) THEN None
    ELSE LET values == filter_config.values[1]
             escaped_values ==
                JoinParts([i \in 1..Len(values) |-> EscapeLiteral(values[i].s)],
                          <<"'", ", ", "'">>)
         IN Some(escape_column(ec, field_name) \o <<" IN ", "(", "'">>
                 \o escaped_values \o <<"'", ")">>)

\* FilterClause that reads an entry of unknown filterType as a text filter
FilterClause_text(ec, entry) ==
    LET filter_type == DictGet(entry.config.filterType, <<"text">>)
    IN IF filter_type = <<"number">>
       THEN build_number_filter(ec, entry.key, entry.config)
       ELSE IF filter_type = <<"set">>
       THEN build_set_filter(ec, entry.key, entry.config)
       ELSE build_text_filter(ec, entry.key, entry.config)

\* the clause of one filterModel entry, None when it contributes nothing
FilterClause(ec, entry) ==
    LET filter_type == DictGet(entry.config.filterType, <<"text">>)
    IN IF filter_type = <<"text">>
       THEN build_text_filter(ec, entry.key, entry.config)
       ELSE IF filter_type = <<"number">>
       THEN build_number_filter(ec, entry.key, entry.config)
       ELSE IF filter_type = <<"set">>
       THEN build_set_filter(ec, entry.key, entry.config)
       ELSE None

RECURSIVE FilterParts(_, _)
\* the clauses of the filter model, in the order of its entries
FilterParts(ec, entries) ==
    IF Len(entries) = 0 THEN <<>>
    ELSE LET c == FilterClause(ec, Head(entries))
         IN (IF IsNone(c) THEN <<>> ELSE <<c[1]>>) \o FilterParts(ec, Tail(entries))

\* ' AND '.join(where_parts)
JoinWhereParts(where_parts) == JoinParts(where_parts, KwAnd)

create_where_sql(o, ec) ==
    LET where_parts ==
            GroupKeyParts(o, ec)
            \o (IF Truthy(o.filterModel) THEN FilterParts(ec, o.filterModel[1]) ELSE <<>>)
    IN IF Len(where_parts) > 0 THEN <<" WHERE ">> \o JoinWhereParts(where_parts)
       ELSE <<>>

\* create_group_by_sql that groups by the first group column at every depth
create_group_by_sql_first(o, ec) ==
    IF ~is_doing_grouping(o) THEN <<>>
    ELSE LET group_col == get_row_group_column(o)
         IN IF IsNone(group_col) \/ ~ColTruthy(group_col[1]) THEN <<>>
            ELSE <<" GROUP BY ">> \o escape_column(ec, IdThenField(o.rowGroupCols[1][1]))

create_group_by_sql(o, ec) ==
    IF ~is_doing_grouping(o) THEN <<>>
    ELSE LET group_col == get_row_group_column(o)
         IN IF IsNone(group_col) \/ ~ColTruthy(group_col[1]) THEN <<>>
            ELSE <<" GROUP BY ">> \o escape_column(ec, IdThenField(group_col[1]))

\* allowed_sort_cols that takes every group column, whatever the depth
allowed_sort_cols_all(o) ==
    LET rgc == o.rowGroupCols[1]
        vcs == IF Truthy(o.valueCols) THEN o.valueCols[1] ELSE <<>>
    IN {IdThenField(rgc[i]) : i \in 1..Len(rgc)}
       \cup {FieldThenId(vcs[i]) : i \in 1..Len(vcs)}

\* the columns a grouped request may sort by
allowed_sort_cols(o) ==
    LET rgc == o.rowGroupCols[1]
        n == IF Len(o.groupKeys[1]) + 1 < Len(rgc) THEN Len(o.groupKeys[1]) + 1
             ELSE Len(rgc)
        vcs == IF Truthy(o.valueCols) THEN o.valueCols[1] ELSE <<>>
    IN {IdThenField(rgc[i]) : i \in 1..n}
       \cup {FieldThenId(vcs[i]) : i \in 1..Len(vcs)}

\* one entry of the ORDER BY list
SortPart(ec, item) ==
    escape_column(ec, DictGet(item.colId, <<>>))
    \o <<" ">> \o Upper(DictGet(item.sort, <<"asc">>))

RECURSIVE SortParts(_, _, _)
\* the entries of sortModel that contribute, in order
SortParts(o, ec, items) ==
    IF Len(items) = 0 THEN <<>>
    ELSE (IF is_doing_grouping(o)
             /\ DictGet(Head(items).colId, <<>>) \notin allowed_sort_cols(o)
          THEN <<>>
          ELSE <<SortPart(ec, Head(items))>>)
         \o SortParts(o, ec, Tail(items))

create_order_by_sql(o, ec) ==
    IF ~Truthy(o.sortModel) THEN <<>>
    ELSE LET sort_parts == SortParts(o, ec, o.sortModel[1])
         IN IF Len(sort_parts) > 0
            THEN <<" ORDER BY ">> \o JoinParts(sort_parts, <<", ">>)
            ELSE <<>>

\* create_limit_sql that tests startRow alone
create_limit_sql_start(o) ==
    IF o.startRow = Some(0) THEN <<>>
    ELSE <<" LIMIT ">> \o PyInt(page_size(o)) \o <<" OFFSET ">> \o PyOptInt(o.startRow)

create_limit_sql(o) ==
    IF o.startRow = Some(0) /\ o.endRow = Some(0) THEN <<>>
    ELSE <<" LIMIT ">> \o PyInt(page_size(o)) \o <<" OFFSET ">> \o PyOptInt(o.startRow)

build_query(o, ec, tn) ==
    Strip(create_select_sql(o, ec, tn) \o create_where_sql(o, ec)
          \o create_group_by_sql(o, ec) \o create_order_by_sql(o, ec)
          \o create_limit_sql(o))

\* build_count_query that counts rows whatever the grouping state
build_count_query_rows(o, ec, tn) ==
    <<"SELECT ", "COUNT", "(", "*", ")", " FROM ">> \o tn \o create_where_sql(o, ec)

\* build_count_query that leaves the WHERE clause out of the grouped count
build_count_query_nowhere(o, ec, tn) ==
    LET group_col == get_row_group_column(o)
    IN IF is_doing_grouping(o) /\ ~IsNone(group_col) /\ ColTruthy(group_col[1])
       THEN <<"SELECT ", "COUNT", "(", "DISTINCT ">>
            \o escape_column(ec, IdThenField(group_col[1]))
            \o <<")", " FROM ">> \o tn
       ELSE <<"SELECT ", "COUNT", "(", "*", ")", " FROM ">> \o tn
            \o create_where_sql(o, ec)

build_count_query(o, ec, tn) ==
    LET group_col == get_row_group_column(o)
    IN IF is_doing_grouping(o) /\ ~IsNone(group_col) /\ ColTruthy(group_col[1])
       THEN <<"SELECT ", "COUNT", "(", "DISTINCT ">>
            \o escape_column(ec, IdThenField(group_col[1]))
            \o <<")", " FROM ">> \o tn \o create_where_sql(o, ec)
       ELSE <<"SELECT ", "COUNT", "(", "*", ")", " FROM ">> \o tn
            \o create_where_sql(o, ec)

\* a statement of the builder raises (TypeError, AttributeError)
BuildRaises(o) ==
    \* create_select_sql: for value_col in valueCols, valueCols None
    \/ /\ is_doing_grouping(o)
       /\ ~IsNone(get_row_group_column(o))
       /\ ColTruthy(get_row_group_column(o)[1])
       /\ IsNone(o.valueCols)
    \* create_where_sql: len(rowGroupCols), rowGroupCols None
    \/ Truthy(o.groupKeys) /\ IsNone(o.rowGroupCols)
    \* _build_text_filter: filter_value.replace, filter_value not a str
    \/ /\ Truthy(o.filterModel)
       /\ \E i \in 1..Len(o.filterModel[1]) :
            LET cfg == o.filterModel[1][i].config
            IN /\ DictGet(cfg.filterType, <<"text">>) = <<"text">>
               /\ DictGet(cfg.type, <<"contains">>) \notin {<<"blank">>, <<"notBlank">>}
               /\ ~ValueFalsy(cfg.filter)
               /\ ~cfg.filter[1].isStr
    \* create_order_by_sql: len(groupKeys), groupKeys None
    \/ Truthy(o.sortModel) /\ is_doing_grouping(o) /\ IsNone(o.groupKeys)

--------------------------------------------------------------------------
(* database.py: the SQL engine behind cursor.execute(query).  The text is  *)
(* split into tokens as SQL does: a quoted identifier runs from a double   *)
(* quote or a backquote to the next one, a string literal from a single    *)
(* quote to the next one that is not doubled; everything else is a keyword *)
(* or a bare word.                                                         *)

Tok(t, v) == [t |-> t, v |-> v]

Kw(a) == Tok("kw", <<a>>)

\* an atom without its surrounding blanks
NormAtom(a) ==
    CASE a = "SELECT " -> "SELECT"
      [] a = " FROM " -> "FROM"
      [] a = " WHERE " -> "WHERE"
      [] a = " AND" -> "AND"
      [] a = " OR " -> "OR"
      [] a = " IS NULL" -> "IS NULL"
      [] a = " IS NOT NULL" -> "IS NOT NULL"
      [] a = " =" -> "="
      [] a = " !=" -> "!="
      [] a = " >" -> ">"
      [] a = " <" -> "<"
      [] a = " >=" -> ">="
      [] a = " <=" -> "<="
      [] a = " LIKE " -> "LIKE"
      [] a = " NOT LIKE " -> "NOT LIKE"
      [] a = " IN " -> "IN"
      [] a = " BETWEEN " -> "BETWEEN"
      [] a = " GROUP BY " -> "GROUP BY"
      [] a = " ORDER BY " -> "ORDER BY"
      [] a = " LIMIT " -> "LIMIT"
      [] a = " OFFSET " -> "OFFSET"
      [] a = " as " -> "AS"
      [] a = ", " -> ","
      [] a = "DISTINCT " -> "DISTINCT"
      [] OTHER -> a

RECURSIVE ScanQuoted(_, _, _, _)
\* the quoted run that starts before position j: its content, where it ends
ScanQuoted(text, j, q, acc) ==
    IF j > Len(text) THEN [ok |-> FALSE, v |-> acc, next |-> j]
    ELSE IF text[j] = q
    THEN IF j + 1 <= Len(text) /\ text[j + 1] = q
         THEN ScanQuoted(text, j + 2, q, Append(acc, q))
         ELSE [ok |-> TRUE, v |-> acc, next |-> j + 1]
    ELSE ScanQuoted(text, j + 1, q, Append(acc, text[j]))

RECURSIVE LexFrom(_, _)
LexFrom(text, i) ==
    IF i > Len(text) THEN <<>>
    ELSE IF text[i] = " " THEN LexFrom(text, i + 1)
    ELSE IF text[i] \in {"'", "\"", BQ}
    THEN LET r == ScanQuoted(text, i + 1, text[i], <<>>)
         IN IF ~r.ok THEN <<Tok("err", r.v)>>
            ELSE <<Tok(IF text[i] = "'" THEN "str" ELSE "id", r.v)>>
                 \o LexFrom(text, r.next)
    ELSE <<Kw(NormAtom(text[i]))>> \o LexFrom(text, i + 1)

\* the tokens of a statement
Lex(text) == LexFrom(text, 1)

\* the first position of x in toks, 0 when it is not there
IndexOf(toks, x) ==
    IF \E i \in 1..Len(toks) : toks[i] = x
    THEN CHOOSE i \in 1..Len(toks) : toks[i] = x /\ \A j \in 1..(i - 1) : toks[j] # x
    ELSE 0

\* the first position of a token of set S, Len(toks) + 1 when there is none
Cut(toks, S) ==
    IF \E i \in 1..Len(toks) : toks[i] \in S
    THEN CHOOSE i \in 1..Len(toks) : toks[i] \in S /\ \A j \in 1..(i - 1) : toks[j] \notin S
    ELSE Len(toks) + 1

RECURSIVE SplitOn(_, _)
SplitOn(toks, sep) ==
    LET i == IndexOf(toks, sep)
    IN IF i = 0 THEN <<toks>>
       ELSE <<SubSeq(toks, 1, i - 1)>> \o SplitOn(SubSeq(toks, i + 1, Len(toks)), sep)

\* the tokens of the clause that keyword kw opens, up to the next clause
ClauseOf(toks, kw, followers) ==
    LET i == IndexOf(toks, Kw(kw))
    IN IF i = 0 THEN <<>>
       ELSE LET rest == SubSeq(toks, i + 1, Len(toks))
            IN SubSeq(rest, 1, Cut(rest, {Kw(k) : k \in followers}) - 1)

HasClause(toks, kw) == IndexOf(toks, Kw(kw)) # 0

SelectOf(toks) ==
    SubSeq(toks, 1, Cut(toks, {Kw(k) : k \in {"WHERE", "GROUP BY", "ORDER BY", "LIMIT"}}) - 1)

WhereOf(toks) == ClauseOf(toks, "WHERE", {"GROUP BY", "ORDER BY", "LIMIT"})

GroupByOf(toks) == ClauseOf(toks, "GROUP BY", {"ORDER BY", "LIMIT"})

OrderByOf(toks) == ClauseOf(toks, "ORDER BY", {"LIMIT"})

LimitOf(toks) == ClauseOf(toks, "LIMIT", {})

(* The table of the database.  A cell is NULL, a string or a float; a row  *)
(* maps the columns to cells.  A value of Python is a cell (None, a        *)
(* non-float scalar, a float), a list of values or a dict, the sequence of *)
(* its items in the order of its keys.                                     *)

Cols == {<<"a">>, <<"b">>}

NullCell == [kind |-> "scalar", null |-> TRUE, float |-> FALSE, s |-> <<>>, items |-> <<>>]

StrCell(s) == [kind |-> "scalar", null |-> FALSE, float |-> FALSE, s |-> s, items |-> <<>>]

\* a float, written as Python prints it: nan, inf, -inf, 1.5
FloatCell(a) ==
    [kind |-> "scalar", null |-> FALSE, float |-> TRUE, s |-> <<a>>, items |-> <<>>]

\* a list of values
ListCell(items) ==
    [kind |-> "list", null |-> FALSE, float |-> FALSE, s |-> <<>>, items |-> items]

\* an item of a dict
Item(key, val) == [key |-> key, val |-> val]

\* a dict as a value: items is the sequence of its items
DictCell(items) ==
    [kind |-> "dict", null |-> FALSE, float |-> FALSE, s |-> <<>>, items |-> items]

RECURSIVE Like(_, _)
\* s LIKE pattern
Like(s, pattern) ==
    IF Len(pattern) = 0 THEN Len(s) = 0
    ELSE IF Head(pattern) = "%"
    THEN Like(s, Tail(pattern)) \/ (Len(s) > 0 /\ Like(Tail(s), pattern))
    ELSE /\ Len(s) > 0
         /\ (Head(pattern) = "_" \/ Head(pattern) = Head(s))
         /\ Like(Tail(s), Tail(pattern))

\* SQL's three truth values: "T", "F" and "U" (unknown)
And3(x, y) == IF x = "F" \/ y = "F" THEN "F" ELSE IF x = "T" /\ y = "T" THEN "T" ELSE "U"

Or3(x, y) == IF x = "T" \/ y = "T" THEN "T" ELSE IF x = "F" /\ y = "F" THEN "F" ELSE "U"

Bool3(b) == IF b THEN "T" ELSE "F"

Not3(x) == IF x = "T" THEN "F" ELSE IF x = "F" THEN "T" ELSE "U"

\* the members of an IN list: tokens 4 .. Len - 1 of the predicate
InListOk(p) ==
    /\ Len(p) >= 5
    /\ Len(p) % 2 = 1
    /\ p[3] = Kw("(")
    /\ p[Len(p)] = Kw(")")
    /\ \A i \in 4..(Len(p) - 1) : IF i % 2 = 0 THEN p[i].t = "str" ELSE p[i] = Kw(",")

\* the kind of a predicate, "bad" for one this engine model does not read
PredShape(p) ==
    IF Len(p) < 2 \/ p[1].t # "id" \/ p[1].v \notin Cols THEN "bad"
    ELSE IF Len(p) = 2 /\ p[2] = Kw("IS NULL") THEN "isnull"
    ELSE IF Len(p) = 2 /\ p[2] = Kw("IS NOT NULL") THEN "notnull"
    ELSE IF Len(p) = 3 /\ p[3].t = "str" /\ p[2] = Kw("=") THEN "eq"
    ELSE IF Len(p) = 3 /\ p[3].t = "str" /\ p[2] = Kw("!=") THEN "ne"
    ELSE IF Len(p) = 3 /\ p[3].t = "str" /\ p[2] = Kw("LIKE") THEN "like"
    ELSE IF Len(p) = 3 /\ p[3].t = "str" /\ p[2] = Kw("NOT LIKE") THEN "notlike"
    ELSE IF p[2] = Kw("IN") /\ InListOk(p) THEN "in"
    ELSE "bad"

EvalPred(p, row) ==
    LET shape == PredShape(p)
        cell == row[p[1].v]
    IN IF shape = "isnull" THEN Bool3(cell.null)
       ELSE IF shape = "notnull" THEN Bool3(~cell.null)
       ELSE IF cell.null THEN "U"
       ELSE IF shape = "eq" THEN Bool3(cell.s = p[3].v)
       ELSE IF shape = "ne" THEN Bool3(cell.s # p[3].v)
       ELSE IF shape = "like" THEN Bool3(Like(cell.s, p[3].v))
       ELSE IF shape = "notlike" THEN Bool3(~Like(cell.s, p[3].v))
       ELSE Bool3(\E i \in 4..(Len(p) - 1) : i % 2 = 0 /\ p[i].v = cell.s)

RECURSIVE EvalAnd(_, _)
\* p1 AND p2 AND ...
EvalAnd(preds, row) ==
    IF Len(preds) = 0 THEN "T"
    ELSE And3(EvalPred(Head(preds), row), EvalAnd(Tail(preds), row))

RECURSIVE EvalOr(_, _)
\* c1 OR c2 OR ..., each ci a conjunction: AND binds tighter than OR
EvalOr(conjs, row) ==
    IF Len(conjs) = 0 THEN "F"
    ELSE Or3(EvalAnd(SplitOn(Head(conjs), Kw("AND")), row), EvalOr(Tail(conjs), row))

\* the value of a WHERE clause on a row
EvalWhere(w, row) == EvalOr(SplitOn(w, Kw("OR")), row)

\* the engine model reads every predicate of the clause
WhereOk(w) ==
    \A i \in 1..Len(SplitOn(w, Kw("OR"))) :
        LET preds == SplitOn(SplitOn(w, Kw("OR"))[i], Kw("AND"))
        IN \A j \in 1..Len(preds) : PredShape(preds[j]) # "bad"

RECURSIVE SelectRows(_, _)
\* the rows of tbl, in order, on which the WHERE clause w is true
SelectRows(tbl, w) ==
    IF Len(tbl) = 0 THEN <<>>
    ELSE (IF EvalWhere(w, Head(tbl)) = "T" THEN <<Head(tbl)>> ELSE <<>>)
         \o SelectRows(Tail(tbl), w)

\* FROM <table> WHERE ...: the rows the statement ranges over
Filtered(toks, tbl) ==
    IF ~HasClause(toks, "WHERE") THEN tbl
    ELSE SelectRows(tbl, WhereOf(toks))

FromWhereOk(toks) == ~HasClause(toks, "WHERE") \/ WhereOk(WhereOf(toks))

TableTok == Kw(DEFAULT_TABLE_NAME[1])

IsCountStar(toks) ==
    /\ SelectOf(toks) = <<Kw("SELECT"), Kw("COUNT"), Kw("("), Kw("*"), Kw(")"),
                          Kw("FROM"), TableTok>>
    /\ ~HasClause(toks, "GROUP BY") /\ ~HasClause(toks, "ORDER BY")
    /\ ~HasClause(toks, "LIMIT")
    /\ FromWhereOk(toks)

IsCountDistinct(toks) ==
    LET sel == SelectOf(toks)
    IN /\ Len(sel) = 8
       /\ SubSeq(sel, 1, 4) = <<Kw("SELECT"), Kw("COUNT"), Kw("("), Kw("DISTINCT")>>
       /\ sel[5].t = "id" /\ sel[5].v \in Cols
       /\ SubSeq(sel, 6, 8) = <<Kw(")"), Kw("FROM"), TableTok>>
       /\ ~HasClause(toks, "GROUP BY") /\ ~HasClause(toks, "ORDER BY")
       /\ ~HasClause(toks, "LIMIT")
       /\ FromWhereOk(toks)

\* the outcomes of a statement the engine model does not read
UnknownCounts(tbl) ==
    {[ok |-> FALSE, n |-> 0]} \cup {[ok |-> TRUE, n |-> k] : k \in {0, Len(tbl)}}

\* cursor.execute(query); cursor.fetchone()[0]: the possible outcomes
ExecCount(text, tbl) ==
    LET toks == Lex(text)
        rows == Filtered(toks, tbl)
    IN IF IsCountStar(toks) THEN {[ok |-> TRUE, n |-> Len(rows)]}
       ELSE IF IsCountDistinct(toks)
       THEN LET c == SelectOf(toks)[5].v
            IN {[ok |-> TRUE,
                 n |-> Cardinality({rows[i][c].s : i \in {j \in 1..Len(rows) : ~rows[j][c].null}})]}
       ELSE UnknownCounts(tbl)

\* the sequences that hold the members of rows in some order
Orderings(rows) ==
    LET n == Len(rows)
        perms == {f \in [1..n -> 1..n] : \A i, j \in 1..n : f[i] = f[j] => i = j}
    IN {[i \in 1..n |-> rows[f[i]]] : f \in perms}

\* the number in 0 .. 100 an atom writes, -1 when it writes none
NumeralValue ==
    [a \in {ToString(n) : n \in 0..500} |-> CHOOSE n \in 0..500 : ToString(n) = a]

NumOf(a) == IF a \in DOMAIN NumeralValue THEN NumeralValue[a] ELSE -1

\* rows[offset + 1 .. offset + limit]
Page(rows, limit, offset) ==
    SubSeq(rows, offset + 1, IF offset + limit < Len(rows) THEN offset + limit ELSE Len(rows))

LimitOk(toks) ==
    \/ ~HasClause(toks, "LIMIT")
    \/ LET l == LimitOf(toks)
       IN /\ Len(l) = 3 /\ l[2] = Kw("OFFSET")
          /\ l[1].t = "kw" /\ NumOf(l[1].v[1]) >= 0
          /\ l[3].t = "kw" /\ NumOf(l[3].v[1]) >= 0

\* an operand of LIMIT or OFFSET is the word None: no such column
LimitFails(toks) ==
    /\ HasClause(toks, "LIMIT")
    /\ \E i \in 1..Len(LimitOf(toks)) : LimitOf(toks)[i] = Kw("None")

\* LIMIT n OFFSET m applied to rows
Limited(toks, rows) ==
    IF ~HasClause(toks, "LIMIT") THEN rows
    ELSE Page(rows, NumOf(LimitOf(toks)[1].v[1]), NumOf(LimitOf(toks)[3].v[1]))

\* ORDER BY names columns of the result, each with ASC or DESC
OrderOk(toks, cols) ==
    \/ ~HasClause(toks, "ORDER BY")
    \/ LET items == SplitOn(OrderByOf(toks), Kw(","))
       IN \A i \in 1..Len(items) :
            /\ Len(items[i]) = 2
            /\ items[i][1].t = "id" /\ items[i][1].v \in cols
            /\ items[i][2] \in {Kw("ASC"), Kw("DESC")}

IsSelectStar(toks) ==
    /\ SelectOf(toks) = <<Kw("SELECT"), Kw("*"), Kw("FROM"), TableTok>>
    /\ ~HasClause(toks, "GROUP BY")
    /\ FromWhereOk(toks)
    /\ OrderOk(toks, Cols)
    /\ LimitOk(toks)

\* SELECT g, count(*) as "count" FROM t ... GROUP BY g
IsGroupCount(toks) ==
    LET sel == SelectOf(toks)
    IN /\ Len(sel) = 11
       /\ sel[1] = Kw("SELECT")
       /\ sel[2].t = "id" /\ sel[2].v \in Cols
       /\ SubSeq(sel, 3, 11) = <<Kw(","), Kw("count"), Kw("("), Kw("*"), Kw(")"), Kw("AS"),
                                 Tok("id", <<"count">>), Kw("FROM"), TableTok>>
       /\ GroupByOf(toks) = <<sel[2]>>
       /\ FromWhereOk(toks)
       /\ OrderOk(toks, {sel[2].v, <<"count">>})
       /\ LimitOk(toks)

\* the rows of the groups of column g: the group value and the group size
GroupRows(rows, g) ==
    LET values == {rows[i][g] : i \in 1..Len(rows)}
        size(v) == Cardinality({i \in 1..Len(rows) : rows[i][g] = v})
        groups == {(g :> v) @@ (<<"count">> :> StrCell(PyInt(size(v)))) : v \in values}
    IN {s \in [1..Cardinality(groups) -> groups] :
            \A i, j \in 1..Cardinality(groups) : s[i] = s[j] => i = j}

\* the result of the statement before LIMIT/OFFSET: its possible row sequences
UnpagedResults(toks, tbl) ==
    IF IsSelectStar(toks)
    THEN IF HasClause(toks, "ORDER BY") THEN Orderings(Filtered(toks, tbl))
         ELSE {Filtered(toks, tbl)}
    ELSE GroupRows(Filtered(toks, tbl), SelectOf(toks)[2].v)

\* the columns of a result in the order of its select list
ColumnOrder == <<<<"a">>, <<"b">>, <<"count">>>>

\* dict(row): the items of a row of the cursor, in the order of its columns
RowDict(row) ==
    LET keys == SelectSeq(ColumnOrder, LAMBDA k : k \in DOMAIN row)
    IN [i \in 1..Len(keys) |-> Item(keys[i], row[keys[i]])]

\* [dict(row) for row in rows]
RowDicts(rows) == [i \in 1..Len(rows) |-> RowDict(rows[i])]

UnknownRows(tbl) ==
    {[ok |-> FALSE, rows |-> <<>>], [ok |-> TRUE, rows |-> <<>>],
     [ok |-> TRUE, rows |-> RowDicts(tbl)]}

\* cursor.execute(query); cursor.fetchall(); dict(row) of every row: the
\* possible outcomes
ExecRows(text, tbl) ==
    LET toks == Lex(text)
    IN IF IsSelectStar(toks) \/ IsGroupCount(toks)
       THEN {[ok |-> TRUE, rows |-> RowDicts(Limited(toks, r))] :
                r \in UnpagedResults(toks, tbl)}
       ELSE IF LimitFails(toks) THEN {[ok |-> FALSE, rows |-> <<>>]}
       ELSE UnknownRows(tbl)

--------------------------------------------------------------------------
(* formatters.py *)

\* math.isnan(data) or math.isinf(data)
IsNanOrInf(data) == data.s \in {<<"nan">>, <<"inf">>, <<"-inf">>}

RECURSIVE clean_json_data(_)
clean_json_data(data) ==
    IF data.kind = "dict"
    THEN DictCell([i \in 1..Len(data.items) |->
                      Item(data.items[i].key, clean_json_data(data.items[i].val))])
    ELSE IF data.kind = "list"
    THEN ListCell([i \in 1..Len(data.items) |-> clean_json_data(data.items[i])])
    ELSE IF data.float
    THEN IF IsNanOrInf(data) THEN NullCell ELSE data
    ELSE data

\* row.get(key); None when the value is None
safe_get_value(row, key) ==
    LET at == {i \in 1..Len(row) : row[i].key = key}
    IN IF at = {} THEN NullCell ELSE row[CHOOSE i \in at : TRUE].val

\* format_regular_row that returns the values of the row as they are
format_regular_row_raw(row) ==
    [i \in 1..Len(row) |-> Item(row[i].key, safe_get_value(row, row[i].key))]

\* a row is the sequence of the items of its dict
format_regular_row(row) ==
    [i \in 1..Len(row) |-> Item(row[i].key, clean_json_data(safe_get_value(row, row[i].key)))]

\* is_grouped keeps its default, False
format_query_results(rows) == [i \in 1..Len(rows) |-> format_regular_row(rows[i])]

--------------------------------------------------------------------------
(* database.py: the failures of a backend read and what is printed.        *)

\* an exception: its class and its message
Exc(type, msg) == [type |-> type, msg |-> msg]

\* for_sqlite sets the double quote, for_mysql the backquote
Backend(ec) == IF ec = BQ THEN "mysql" ELSE "sqlite"

\* the except clause of the read catches the exception: except Exception
\* in SQLiteConnection, except MySQLError in MySQLConnection
Caught(backend, type) == backend = "sqlite" \/ type = "DriverError"

\* what a failed read prints: what is "count" or "main"
FailureLog(backend, what, query, stage, exc) ==
    (IF backend = "mysql" /\ stage = "connect" /\ exc.type = "DriverError"
     THEN <<[what |-> "connect", query |-> None, msg |-> exc.msg]>>
     ELSE <<>>)
    \o (IF Caught(backend, exc.type)
        THEN <<[what |-> what, query |-> Some(query), msg |-> exc.msg]>>
        ELSE <<>>)

\* the connections a read leaves open when it ends; outcome is "ok", or the
\* stage of its failure.  MySQLConnection closes the connection after the
\* fetch and nowhere else; SQLiteConnection never calls close(): the with
\* block of a sqlite3 connection ends the transaction only, and the
\* connection is closed when the interpreter finalises it, which is at the
\* return of the read under reference counting and not before the exception
\* is dropped when the read raises
LeftOpen(backend, outcome, refcounted) ==
    IF outcome = "connect" THEN 0
    ELSE IF backend = "mysql" THEN (IF outcome = "ok" THEN 0 ELSE 1)
    ELSE IF outcome = "ok" /\ refcounted THEN 0
    ELSE 1

\* no connection is open and no table information has been read; refcounted
\* is the interpreter finalising an object when its last reference goes
NoConnections(refcounted) == [open |-> 0, refcounted |-> refcounted, reads |-> 0]

\* connections after a read of the backend with this outcome
AfterRead(outcome) ==
    [connections EXCEPT
        !.open = @ + LeftOpen(Backend(escape_char), outcome, connections.refcounted)]

\* the driver does not fail on its own account
NoFault == [at |-> "none", stage |-> "none", type |-> "none"]

\* the failures of the environment: the read or step it hits, the stage of
\* the read, the class of the exception
Faults ==
    {[at |-> a, stage |-> st, type |-> t] :
        a \in {"count", "main"}, st \in {"connect", "execute"}, t \in {"DriverError", "Other"}}
    \cup {[at |-> "format", stage |-> "format", type |-> "Other"]}

\* the exception of a failure of the environment
FaultExc == Exc(fault.type, <<"unavailable">>)

\* the exception of a statement the database rejects
SqlExc == Exc("DriverError", <<"syntax error">>)

\* the second call, before it starts and when there is none
Idle ==
    [pc |-> "idle", options |-> <<>>, main_query |-> <<>>, count_query |-> <<>>,
     total_count |-> 0, results |-> <<>>]

--------------------------------------------------------------------------
(* helpers.py: perform_ssrm_query, one step per statement.  pc is the      *)
(* statement the call is at; "raised" is the call ended by an exception.   *)

\* BuildMain that uses up the group keys of the request as it builds
BuildMain_consuming ==
    /\ pc = "start"
    /\ IF BuildRaises(options)
       THEN /\ pc' = "raised"
            /\ main_query' = main_query
            /\ error' = Some(Exc("TypeError", <<"NoneType">>))
       ELSE /\ main_query' = build_query(options, escape_char, db_manager[1].config.table_name)
            /\ pc' = "main_built"
            /\ error' = error
    /\ options' = [options EXCEPT !.groupKeys = Some(<<>>)]
    /\ UNCHANGED <<escape_char, table, count_query, total_count, results,
                   fault, log, executed, response, other,
                   manager_args, db_manager, connections>>

\* main_query = query_builder.build_query()
BuildMain ==
    /\ pc = "start"
    /\ IF BuildRaises(options)
       THEN /\ pc' = "raised"
            /\ main_query' = main_query
            /\ error' = Some(Exc("TypeError", <<"NoneType">>))
       ELSE /\ main_query' = build_query(options, escape_char, db_manager[1].config.table_name)
            /\ pc' = "main_built"
            /\ error' = error
    /\ UNCHANGED <<options, escape_char, table, count_query, total_count, results,
                   fault, log, executed, response, other,
                   manager_args, db_manager, connections>>

\* count_query = query_builder.build_count_query()
BuildCount ==
    /\ pc = "main_built"
    /\ count_query' = build_count_query(options, escape_char, db_manager[1].config.table_name)
    /\ pc' = "built"
    /\ UNCHANGED <<options, escape_char, table, main_query, total_count, results,
                   fault, error, log, executed, response, other,
                   manager_args, db_manager, connections>>

\* ExecuteCount that goes on to the main query when the driver fails
ExecuteCount_swallowing ==
    /\ pc = "built"
    /\ IF fault.at = "count"
       THEN /\ pc' = "counted"
            /\ total_count' = total_count
            /\ error' = Some(FaultExc)
            /\ executed' = IF fault.stage = "execute" THEN Append(executed, count_query)
                           ELSE executed
            /\ log' = log \o FailureLog(Backend(escape_char), "count", count_query,
                                        fault.stage, FaultExc)
            /\ connections' = AfterRead(fault.stage)
       ELSE \E r \in ExecCount(count_query, table) :
               /\ executed' = Append(executed, count_query)
               /\ IF r.ok
                  THEN /\ total_count' = r.n
                       /\ pc' = "counted"
                       /\ error' = error
                       /\ log' = log
                  ELSE /\ total_count' = total_count
                       /\ pc' = "raised"
                       /\ error' = Some(SqlExc)
                       /\ log' = log \o FailureLog(Backend(escape_char), "count", count_query,
                                                   "execute", SqlExc)
               /\ connections' = AfterRead(IF r.ok THEN "ok" ELSE "execute")
    /\ UNCHANGED <<options, escape_char, table, main_query, count_query, results,
                   fault, response, other, manager_args, db_manager>>

\* total_count = db_manager.execute_count_query(count_query)
ExecuteCount ==
    /\ pc = "built"
    /\ IF fault.at = "count"
       THEN /\ pc' = "raised"
            /\ total_count' = total_count
            /\ error' = Some(FaultExc)
            /\ executed' = IF fault.stage = "execute" THEN Append(executed, count_query)
                           ELSE executed
            /\ log' = log \o FailureLog(Backend(escape_char), "count", count_query,
                                        fault.stage, FaultExc)
            /\ connections' = AfterRead(fault.stage)
       ELSE \E r \in ExecCount(count_query, table) :
               /\ executed' = Append(executed, count_query)
               /\ IF r.ok
                  THEN /\ total_count' = r.n
                       /\ pc' = "counted"
                       /\ error' = error
                       /\ log' = log
                  ELSE /\ total_count' = total_count
                       /\ pc' = "raised"
                       /\ error' = Some(SqlExc)
                       /\ log' = log \o FailureLog(Backend(escape_char), "count", count_query,
                                                   "execute", SqlExc)
               /\ connections' = AfterRead(IF r.ok THEN "ok" ELSE "execute")
    /\ UNCHANGED <<options, escape_char, table, main_query, count_query, results,
                   fault, response, other, manager_args, db_manager>>

\* results = db_manager.execute_query(main_query)
ExecuteMain ==
    /\ pc = "counted"
    /\ IF fault.at = "main"
       THEN /\ pc' = "raised"
            /\ results' = results
            /\ error' = Some(FaultExc)
            /\ executed' = IF fault.stage = "execute" THEN Append(executed, main_query)
                           ELSE executed
            /\ log' = log \o FailureLog(Backend(escape_char), "main", main_query,
                                        fault.stage, FaultExc)
            /\ connections' = AfterRead(fault.stage)
       ELSE \E r \in ExecRows(main_query, table) :
               /\ executed' = Append(executed, main_query)
               /\ IF r.ok
                  THEN /\ results' = r.rows
                       /\ pc' = "fetched"
                       /\ error' = error
                       /\ log' = log
                  ELSE /\ results' = results
                       /\ pc' = "raised"
                       /\ error' = Some(SqlExc)
                       /\ log' = log \o FailureLog(Backend(escape_char), "main", main_query,
                                                   "execute", SqlExc)
               /\ connections' = AfterRead(IF r.ok THEN "ok" ELSE "execute")
    /\ UNCHANGED <<options, escape_char, table, main_query, count_query, total_count,
                   fault, response, other, manager_args, db_manager>>

\* formatted_results = format_query_results(results); return
Format ==
    /\ pc = "fetched"
    /\ IF fault.at = "format"
       THEN /\ pc' = "raised"
            /\ results' = results
            /\ error' = Some(FaultExc)
       ELSE /\ results' = format_query_results(results)
            /\ pc' = "done"
            /\ error' = error
    /\ UNCHANGED <<options, escape_char, table, main_query, count_query, total_count,
                   fault, log, executed, response, other,
                   manager_args, db_manager, connections>>

\* Respond that answers a failed call with what the call had computed
Respond_partial ==
    /\ pc \in {"done", "raised"}
    /\ response = None
    /\ response' =
          Some([status |-> 200, rowData |-> Some(results), rowCount |-> Some(total_count),
                detail |-> None])
    /\ UNCHANGED <<options, escape_char, table, pc, main_query, count_query, total_count,
                   results, fault, error, log, executed, other,
                   manager_args, db_manager, connections>>

\* main.py, get_data_ssrm: the response of the endpoint, rowData and
\* rowCount of the returned pair or HTTPException(status_code=500)
Respond ==
    /\ pc \in {"done", "raised"}
    /\ response = None
    /\ response' =
          IF pc = "done"
          THEN Some([status |-> 200, rowData |-> Some(results), rowCount |-> Some(total_count),
                     detail |-> None])
          ELSE Some([status |-> 500, rowData |-> None, rowCount |-> None,
                     detail |-> Some(<<"Error processing SSRM request: ">> \o error[1].msg)])
    /\ UNCHANGED <<options, escape_char, table, pc, main_query, count_query, total_count,
                   results, fault, error, log, executed, other,
                   manager_args, db_manager, connections>>

Next == BuildMain \/ BuildCount \/ ExecuteCount \/ ExecuteMain \/ Format \/ Respond

--------------------------------------------------------------------------
(* A second call of perform_ssrm_query on the same db_manager, interleaved *)
(* with the first statement by statement.  It has its own QueryBuilder and *)
(* its own locals (other) and reads the same configuration and table.      *)

OtherBuildMain ==
    /\ other.pc = "start"
    /\ other' = IF BuildRaises(other.options) THEN [other EXCEPT !.pc = "raised"]
                ELSE [other EXCEPT
                        !.main_query = build_query(other.options, escape_char,
                                                   db_manager[1].config.table_name),
                        !.pc = "main_built"]
    /\ UNCHANGED <<options, escape_char, table, pc, main_query, count_query, total_count,
                   results, fault, error, log, executed, response,
                   manager_args, db_manager, connections>>

OtherBuildCount ==
    /\ other.pc = "main_built"
    /\ other' = [other EXCEPT
                   !.count_query = build_count_query(other.options, escape_char,
                                                     db_manager[1].config.table_name),
                   !.pc = "built"]
    /\ UNCHANGED <<options, escape_char, table, pc, main_query, count_query, total_count,
                   results, fault, error, log, executed, response,
                   manager_args, db_manager, connections>>

OtherExecuteCount ==
    /\ other.pc = "built"
    /\ \E r \in ExecCount(other.count_query, table) :
          /\ other' = IF r.ok THEN [other EXCEPT !.total_count = r.n, !.pc = "counted"]
                      ELSE [other EXCEPT !.pc = "raised"]
          /\ log' = IF r.ok THEN log
                    ELSE log \o FailureLog(Backend(escape_char), "count", other.count_query,
                                           "execute", SqlExc)
          /\ connections' = AfterRead(IF r.ok THEN "ok" ELSE "execute")
    /\ executed' = Append(executed, other.count_query)
    /\ UNCHANGED <<options, escape_char, table, pc, main_query, count_query, total_count,
                   results, fault, error, response, manager_args, db_manager>>

\* OtherExecuteMain that runs the statement the first call built
OtherExecuteMain_shared ==
    /\ other.pc = "counted"
    /\ \E r \in ExecRows(main_query, table) :
          /\ other' = IF r.ok THEN [other EXCEPT !.results = r.rows, !.pc = "fetched"]
                      ELSE [other EXCEPT !.pc = "raised"]
          /\ log' = IF r.ok THEN log
                    ELSE log \o FailureLog(Backend(escape_char), "main", main_query,
                                           "execute", SqlExc)
          /\ connections' = AfterRead(IF r.ok THEN "ok" ELSE "execute")
    /\ executed' = Append(executed, main_query)
    /\ UNCHANGED <<options, escape_char, table, pc, main_query, count_query, total_count,
                   results, fault, error, response, manager_args, db_manager>>

OtherExecuteMain ==
    /\ other.pc = "counted"
    /\ \E r \in ExecRows(other.main_query, table) :
          /\ other' = IF r.ok THEN [other EXCEPT !.results = r.rows, !.pc = "fetched"]
                      ELSE [other EXCEPT !.pc = "raised"]
          /\ log' = IF r.ok THEN log
                    ELSE log \o FailureLog(Backend(escape_char), "main", other.main_query,
                                           "execute", SqlExc)
          /\ connections' = AfterRead(IF r.ok THEN "ok" ELSE "execute")
    /\ executed' = Append(executed, other.main_query)
    /\ UNCHANGED <<options, escape_char, table, pc, main_query, count_query, total_count,
                   results, fault, error, response, manager_args, db_manager>>

OtherFormat ==
    /\ other.pc = "fetched"
    /\ other' = [other EXCEPT !.results = format_query_results(other.results), !.pc = "done"]
    /\ UNCHANGED <<options, escape_char, table, pc, main_query, count_query, total_count,
                   results, fault, error, log, executed, response,
                   manager_args, db_manager, connections>>

NextConc ==
    \/ Next
    \/ OtherBuildMain \/ OtherBuildCount \/ OtherExecuteCount \/ OtherExecuteMain
    \/ OtherFormat

--------------------------------------------------------------------------
(* models.py and main.py: the request body becomes an AgGridOptions.  A    *)
(* field of the body is absent, or given with a value that may be null.    *)

Absent == [given |-> FALSE, v |-> None]

Given(x) == [given |-> TRUE, v |-> x]

\* the defaults of the fields of AgGridOptions
FieldDefaults ==
    [startRow |-> Some(0), endRow |-> Some(500), sortModel |-> Some(<<>>),
     filterModel |-> Some(<<>>), groupKeys |-> Some(<<>>), rowGroupCols |-> Some(<<>>),
     valueCols |-> Some(<<>>)]

\* AgGridOptions(**body): a given field keeps its value, null included, an
\* absent field takes its default; fields_set is the set of the given fields
AgGridOptions(body) ==
    [f \in DOMAIN FieldDefaults |-> IF body[f].given THEN body[f].v ELSE FieldDefaults[f]]
    @@ ("fields_set" :> {f \in DOMAIN FieldDefaults : body[f].given})

\* get_data_ssrm receives the body as ag_options
Validate ==
    /\ pc = "received"
    /\ options' = AgGridOptions(options)
    /\ pc' = "start"
    /\ UNCHANGED <<escape_char, table, main_query, count_query, total_count, results,
                   fault, error, log, executed, response, other,
                   manager_args, db_manager, connections>>

NextBody == Validate \/ Next

--------------------------------------------------------------------------
(* config.py, database.py and helpers.py: the set-up of the backend.  A    *)
(* string is a sequence of atoms; a keyword argument is absent or given.   *)

\* config.get_database_path(custom_path), the file name of the path
get_database_path(custom_path) ==
    IF Truthy(custom_path) THEN custom_path[1] ELSE <<"demo_data.db">>

\* DatabaseConfig(database_type, connection_string, table_name, escape_char);
\* connection_string is a path or the dict of the MySQL parameters
DatabaseConfig(database_type, path, params, tn, ec) ==
    [database_type |-> database_type, connection_string |-> [path |-> path, params |-> params],
     table_name |-> tn, escape_char |-> ec]

\* no dict of MySQL parameters
NoParams == [k \in {"host", "database", "user", "password", "port"} |-> None]

for_sqlite(db_path, tn) ==
    DatabaseConfig("sqlite", Some(get_database_path(db_path)), NoParams, tn, "\"")

for_snowflake(connection_string, tn, schema) ==
    DatabaseConfig("snowflake", connection_string, NoParams,
                   IF Truthy(schema) THEN schema[1] \o <<".">> \o tn ELSE tn, "\"")

for_mysql(host, database, user, password, tn, port) ==
    DatabaseConfig("mysql", None,
                   [host |-> host, database |-> database, user |-> user,
                    password |-> password, port |-> port],
                   tn, BQ)

\* the outcome of a constructor: the exception it raises or the object
Raised(exc) == [raised |-> Some(exc), manager |-> None]

Returned(m) == [raised |-> None, manager |-> Some(m)]

\* DatabaseManager(config): __init__ and _create_connection;
\* mysql_available is MYSQL_AVAILABLE, the driver could be imported
DatabaseManager(config, mysql_available) ==
    IF config.database_type = "sqlite"
    THEN Returned([config |-> config, connection |-> "SQLiteConnection"])
    ELSE IF config.database_type = "mysql"
    THEN IF ~mysql_available
         THEN Raised(Exc("ImportError",
                         <<"mysql-connector-python is required for MySQL connections">>))
         ELSE Returned([config |-> config, connection |-> "MySQLConnection"])
    ELSE IF config.database_type = "snowflake"
    THEN Raised(Exc("NotImplementedError", <<"Snowflake connection not yet implemented">>))
    ELSE Raised(Exc("ValueError", <<"Unsupported database type: ", config.database_type>>))

\* mysql_params.get(key, default)
ParamGet(params, key, default) == IF params[key].given THEN params[key].v ELSE default

\* create_database_manager that does not look at the MySQL parameters
create_database_manager_unchecked(args) ==
    LET tn == IF args.table_name.given THEN args.table_name.v ELSE <<"data">>
        params == args.mysql_params
    IN IF args.database_type = "sqlite"
       THEN DatabaseManager(for_sqlite(args.file_path, tn), args.mysql_available)
       ELSE IF args.database_type = "mysql"
       THEN DatabaseManager(for_mysql(ParamGet(params, "host", Some(<<"localhost">>)),
                                      ParamGet(params, "database", None),
                                      ParamGet(params, "user", None),
                                      ParamGet(params, "password", None), tn,
                                      ParamGet(params, "port", Some(<<"3306">>))),
                            args.mysql_available)
       ELSE IF args.database_type = "snowflake"
       THEN DatabaseManager(for_snowflake(args.connection_string, tn, args.schema),
                            args.mysql_available)
       ELSE Raised(Exc("ValueError", <<"Unsupported database type: ", args.database_type>>))

create_database_manager(args) ==
    LET tn == IF args.table_name.given THEN args.table_name.v ELSE <<"data">>
        params == args.mysql_params
        host == ParamGet(params, "host", Some(<<"localhost">>))
        database == ParamGet(params, "database", None)
        user == ParamGet(params, "user", None)
        password == ParamGet(params, "password", None)
        port == ParamGet(params, "port", Some(<<"3306">>))
    IN IF args.database_type = "sqlite"
       THEN DatabaseManager(for_sqlite(args.file_path, tn), args.mysql_available)
       ELSE IF args.database_type = "mysql"
       THEN IF ~(Truthy(host) /\ Truthy(database) /\ Truthy(user) /\ Truthy(password))
            THEN Raised(Exc("ValueError",
                            <<"MySQL requires host, database, user, and password parameters">>))
            ELSE DatabaseManager(for_mysql(host, database, user, password, tn, port),
                                 args.mysql_available)
       ELSE IF args.database_type = "snowflake"
       THEN DatabaseManager(for_snowflake(args.connection_string, tn, args.schema),
                            args.mysql_available)
       ELSE Raised(Exc("ValueError", <<"Unsupported database type: ", args.database_type>>))

\* the arguments of create_database_manager
ManagerArgs(database_type, file_path, tn, params, mysql_available) ==
    [database_type |-> database_type, file_path |-> file_path, connection_string |-> None,
     table_name |-> tn, schema |-> None, mysql_params |-> params,
     mysql_available |-> mysql_available]

\* no keyword arguments for MySQL
NoMySQLParams == [k \in {"host", "database", "user", "password", "port"} |-> Absent]

\* main.py: create_database_manager(database_type="sqlite", file_path=...,
\* table_name="demo_data")
MainArgs ==
    ManagerArgs("sqlite", Some(<<"demo_data.db">>), Given(DEFAULT_TABLE_NAME), NoMySQLParams, TRUE)

\* the same deployment on a MySQL server
MySQLArgs ==
    ManagerArgs("mysql", None, Given(DEFAULT_TABLE_NAME),
                [host |-> Given(Some(<<"h">>)), database |-> Given(Some(<<"d">>)),
                 user |-> Given(Some(<<"u">>)), password |-> Given(Some(<<"p">>)),
                 port |-> Absent],
                TRUE)

\* the arguments of the deployment whose escape character is ec
DeployArgs(ec) == IF ec = BQ THEN MySQLArgs ELSE MainArgs

\* db_manager = create_database_manager(...), at the import of main.py: an
\* exception ends the start of the application
Setup ==
    /\ pc = "setup"
    /\ LET r == create_database_manager(manager_args)
       IN /\ db_manager' = r.manager
          /\ error' = r.raised
          /\ pc' = IF Len(r.raised) = 1 THEN "setup_failed" ELSE "received"
          /\ escape_char' = IF Len(r.manager) = 1 THEN r.manager[1].config.escape_char
                            ELSE escape_char
    /\ UNCHANGED <<options, table, main_query, count_query, total_count, results,
                   fault, log, executed, response, other, manager_args, connections>>

NextSetup == Setup \/ NextBody

--------------------------------------------------------------------------
(* database.py: the reads of table information, get_table_columns and      *)
(* get_table_count.  They go through get_connection like the queries.      *)

MaxInfoReads == 1

\* what a failed read of table information prints: MySQLConnection prints
\* the exception it catches, SQLiteConnection has no except clause
InfoLog(backend, what, outcome, exc) ==
    IF backend = "mysql" /\ outcome # "ok" /\ exc.type = "DriverError"
    THEN (IF outcome = "connect"
          THEN <<[what |-> "connect", query |-> None, msg |-> exc.msg]>> ELSE <<>>)
         \o <<[what |-> what, query |-> None, msg |-> exc.msg]>>
    ELSE <<>>

\* db_manager.get_table_columns(), with any outcome of the driver
GetTableColumns ==
    /\ pc \in {"start", "done", "raised"}
    /\ connections.reads < MaxInfoReads
    /\ \E outcome \in {"ok", "connect", "execute"}, type \in {"DriverError", "Other"} :
          /\ connections' = [AfterRead(outcome) EXCEPT !.reads = @ + 1]
          /\ log' = log \o InfoLog(Backend(escape_char), "table columns", outcome,
                                    Exc(type, <<"unavailable">>))
    /\ UNCHANGED <<options, escape_char, table, pc, main_query, count_query, total_count,
                   results, fault, error, executed, response, other,
                   manager_args, db_manager>>

\* db_manager.get_table_count(), with any outcome of the driver
GetTableCount ==
    /\ pc \in {"start", "done", "raised"}
    /\ connections.reads < MaxInfoReads
    /\ \E outcome \in {"ok", "connect", "execute"}, type \in {"DriverError", "Other"} :
          /\ connections' = [AfterRead(outcome) EXCEPT !.reads = @ + 1]
          /\ log' = log \o InfoLog(Backend(escape_char), "table count", outcome,
                                    Exc(type, <<"unavailable">>))
    /\ UNCHANGED <<options, escape_char, table, pc, main_query, count_query, total_count,
                   results, fault, error, executed, response, other,
                   manager_args, db_manager>>

NextConn == Next \/ GetTableColumns \/ GetTableCount

--------------------------------------------------------------------------
(* Requests and tables *)

Str(s) == [isStr |-> TRUE, s |-> s]

Num(a) == [isStr |-> FALSE, s |-> <<a>>]

Col(id, field) == [id |-> id, field |-> field]

ValueCol(field, aggFunc) == [id |-> None, field |-> field, aggFunc |-> aggFunc]

SortItem(colId, sort) == [colId |-> colId, sort |-> sort]

FilterConfig(filterType, type, filter) ==
    [filterType |-> filterType, type |-> type, filter |-> filter,
     filterTo |-> None, values |-> None]

RangeFilter(filter, filterTo) ==
    [filterType |-> Some(<<"number">>), type |-> Some(<<"inRange">>), filter |-> Some(filter),
     filterTo |-> Some(filterTo), values |-> None]

SetFilter(values) ==
    [filterType |-> Some(<<"set">>), type |-> None, filter |-> None,
     filterTo |-> None, values |-> values]

TextFilter(type, s) == FilterConfig(Some(<<"text">>), Some(<<type>>), Some(Str(s)))

Entry(key, config) == [key |-> key, config |-> config]

Options(startRow, endRow, sortModel, filterModel, groupKeys, rowGroupCols, valueCols) ==
    [startRow |-> startRow, endRow |-> endRow, sortModel |-> sortModel,
     filterModel |-> filterModel, groupKeys |-> groupKeys,
     rowGroupCols |-> rowGroupCols, valueCols |-> valueCols]

\* the sequences over S of length at most n
SeqsUpTo(S, n) == UNION {[1..k -> S] : k \in 0..n}

\* the state a call starts in, with the failure the environment will
\* inject and the second call
StartIn(o, ec, tbl, f, oth, refcounted) ==
    /\ options = o
    /\ escape_char = ec
    /\ table = tbl
    /\ pc = "start"
    /\ main_query = <<>>
    /\ count_query = <<>>
    /\ total_count = 0
    /\ results = <<>>
    /\ fault = f
    /\ error = None
    /\ log = <<>>
    /\ executed = <<>>
    /\ response = None
    /\ other = oth
    /\ manager_args = DeployArgs(ec)
    /\ db_manager = create_database_manager(DeployArgs(ec)).manager
    /\ connections = NoConnections(refcounted)

\* the state a call starts in under the reference interpreter
StartAll(o, ec, tbl, f, oth) == StartIn(o, ec, tbl, f, oth, TRUE)

\* the state a call starts in: no failure of the environment, no second call
Start(o, ec, tbl) == StartAll(o, ec, tbl, NoFault, Idle)

--------------------------------------------------------------------------
(* Scenario: requests over a table whose content varies, to compare the    *)
(* rows and counts the statements produce.                                 *)

MaxRows == 2

ColA == <<"a">>

ColB == <<"b">>

\* a row with the given cells of columns a and b
Row(ca, cb) == (ColA :> ca) @@ (ColB :> cb)

SemRows ==
    {Row(ca, cb) : ca \in {NullCell, StrCell(<<>>), StrCell(<<"x">>)},
                   cb \in {NullCell, StrCell(<<"x">>)}}

SemTables == SeqsUpTo(SemRows, MaxRows)

SemFiltersA ==
    {Entry(ColA, TextFilter("blank", <<>>)), Entry(ColA, TextFilter("notBlank", <<>>)),
     Entry(ColA, TextFilter("equals", <<"x">>)), Entry(ColA, TextFilter("contains", <<"x">>))}

SemFiltersB ==
    {Entry(ColB, TextFilter("equals", <<"x">>)), Entry(ColB, TextFilter("blank", <<>>)),
     Entry(ColB, SetFilter(Some(<<Str(<<"x">>)>>)))}

SemFilterModels ==
    {<<>>} \cup {<<fa>> : fa \in SemFiltersA} \cup {<<fb>> : fb \in SemFiltersB}
    \cup {<<fa, fb>> : fa \in SemFiltersA, fb \in SemFiltersB}

ColDescA == Col(Some(ColA), Some(ColA))

ColDescB == Col(Some(ColB), Some(ColB))

\* <<rowGroupCols, groupKeys>>
SemGroupings ==
    {<< <<>>, <<>> >>, << <<ColDescA>>, <<>> >>, << <<ColDescB>>, <<>> >>,
     << <<ColDescA>>, <<Str(<<"x">>)>> >>, << <<ColDescA, ColDescB>>, <<Str(<<"x">>)>> >>}

\* <<startRow, endRow, sortModel>>
SemPagings ==
    {<<0, 0, <<>> >>, <<0, 1, <<SortItem(Some(ColA), Some(<<"desc">>))>> >>}

SemOptions ==
    {Options(Some(p[1]), Some(p[2]), Some(p[3]), Some(fm), Some(g[2]), Some(g[1]), Some(<<>>)) :
        p \in SemPagings, fm \in SemFilterModels, g \in SemGroupings}

InitSem ==
    \E o \in SemOptions, tbl \in SemTables : Start(o, "\"", tbl)

SpecSem == InitSem /\ [][Next]_vars

--------------------------------------------------------------------------
(* Scenario: pagination bounds, present or missing.                        *)

\* a table of two rows
FixedTable == <<Row(StrCell(<<"x">>), StrCell(<<"x">>)), Row(NullCell, StrCell(<<"x">>))>>

PageBounds ==
    {<<s, e>> : s \in {None, Some(-1), Some(0), Some(100)},
                e \in {None, Some(0), Some(50), Some(150)}}

\* <<rowGroupCols, groupKeys>>
PageGroupings ==
    {<< <<>>, <<>> >>, << <<ColDescA>>, <<>> >>, << <<ColDescA, ColDescB>>, <<Str(<<"x">>)>> >>}

PageOptions ==
    {Options(b[1], b[2], Some(sm), Some(fm), Some(g[2]), Some(g[1]), Some(<<>>)) :
        b \in PageBounds,
        sm \in {<<>>, <<SortItem(Some(ColA), Some(<<"asc">>))>>},
        fm \in {<<>>, <<Entry(ColB, TextFilter("equals", <<"x">>))>>},
        g \in PageGroupings}

InitPage == \E o \in PageOptions : Start(o, "\"", FixedTable)

SpecPage == InitPage /\ [][Next]_vars

--------------------------------------------------------------------------
(* Scenario: grouping, drill-down, aggregation and sorting.                *)

ColV == <<"v">>

ColW == <<"w">>

\* id and field differ
ColDescBC == Col(Some(ColB), Some(<<"c">>))

\* no field
ColDescD == Col(Some(<<"d">>), None)

GroupRowGroupCols ==
    {<<>>, <<ColDescA>>, <<ColDescA, ColDescBC>>, <<ColDescD, ColDescA>>}

GroupKeys ==
    {<<>>, <<Str(<<"x">>)>>, <<Str(<<"x">>), Num("7")>>,
     <<Str(<<"x">>), Str(<<"y">>), Str(<<"x">>)>>}

GroupValueCols ==
    {<<>>, <<ValueCol(Some(ColV), Some(<<"avg">>))>>,
     <<ValueCol(Some(ColV), Some(<<"median">>)), ValueCol(Some(ColW), None)>>}

GroupSortModels ==
    {<<>>,
     <<SortItem(Some(ColA), Some(<<"asc">>))>>,
     <<SortItem(Some(ColB), Some(<<"desc">>)), SortItem(Some(ColV), None)>>,
     <<SortItem(Some(<<"c">>), Some(<<"asc">>)), SortItem(Some(<<"z">>), Some(<<"desc">>))>>,
     <<SortItem(Some(<<"d">>), Some(<<"desc">>)), SortItem(Some(ColA), Some(<<"asc">>)),
       SortItem(Some(ColW), Some(<<"asc">>))>>}

GroupFilterModels ==
    {<<>>, <<Entry(ColB, TextFilter("contains", <<"x">>))>>,
     <<Entry(ColV, RangeFilter(Num("10"), Num("20"))),
       Entry(ColA, SetFilter(Some(<<Str(<<"x">>), Str(<<"y">>)>>)))>>}

GroupOptions ==
    {Options(Some(0), Some(100), Some(sm), Some(fm), Some(gk), Some(rgc), Some(vc)) :
        sm \in GroupSortModels, fm \in GroupFilterModels, gk \in GroupKeys,
        rgc \in GroupRowGroupCols, vc \in GroupValueCols}

InitGroup == \E o \in GroupOptions, ec \in {"\"", BQ} : Start(o, ec, FixedTable)

SpecGroup == InitGroup /\ [][Next]_vars

--------------------------------------------------------------------------
(* Scenario: literal values that hold single quotes.                       *)

MaxLit == 2

\* request strings made of a letter and the single quote
LitStrings == SeqsUpTo({"a", "'"}, MaxLit)

LitGroupings ==
    {<< <<>>, <<>> >>} \cup {<< <<ColDescA>>, <<Str(s)>> >> : s \in LitStrings}

LitMembers == {Str(s) : s \in LitStrings \ {<<>>}}

LitFilterModels ==
    {<<>>}
    \cup {<<Entry(ColB, TextFilter(t, s))>> :
            t \in {"contains", "equals", "startsWith", "endsWith", "notContains", "blank"},
            s \in LitStrings}
    \cup {<<Entry(ColB, SetFilter(Some(vs)))>> : vs \in SeqsUpTo(LitMembers, 2) \ {<<>>}}

LitOptions ==
    {Options(Some(0), Some(100), Some(<<>>), Some(fm), Some(g[2]), Some(g[1]), Some(<<>>)) :
        fm \in LitFilterModels, g \in LitGroupings}

InitLit == \E o \in LitOptions, ec \in {"\"", BQ} : Start(o, ec, FixedTable)

SpecLit == InitLit /\ [][Next]_vars

--------------------------------------------------------------------------
(* Scenario: column names that hold the quote of the dialect, and number   *)
(* filters whose value arrives as a string.                                *)

InjNames ==
    {ColA, <<"a", "\"", " OR ", "\"", "b">>, <<"c", BQ, "d">>}

InjNumbers == {Num("5"), Str(<<"5">>), Str(<<"0", " OR ", "1", " =", "1">>)}

InjFilterModels ==
    {<<>>}
    \cup {<<Entry(n, TextFilter("equals", <<"x">>))>> : n \in InjNames}
    \cup {<<Entry(ColA, FilterConfig(Some(<<"number">>), Some(<<t>>), Some(v)))>> :
            t \in {"equals", "greaterThan"}, v \in InjNumbers}
    \cup {<<Entry(ColA, RangeFilter(Num("1"), v))>> : v \in InjNumbers}

InjSortModels == {<<>>} \cup {<<SortItem(Some(n), Some(<<"asc">>))>> : n \in InjNames}

InjRowGroupCols == {<<>>} \cup {<<Col(Some(n), Some(n))>> : n \in InjNames}

InjValueCols == {<<>>} \cup {<<ValueCol(Some(n), Some(<<"sum">>))>> : n \in InjNames}

InjOptions ==
    {Options(Some(0), Some(100), Some(sm), Some(fm), Some(gk), Some(rgc), Some(vc)) :
        sm \in InjSortModels, fm \in InjFilterModels,
        gk \in {<<>>, <<Str(<<"x">>)>>}, rgc \in InjRowGroupCols, vc \in InjValueCols}

InitInj == \E o \in InjOptions, ec \in {"\"", BQ} : Start(o, ec, FixedTable)

SpecInj == InitInj /\ [][Next]_vars

--------------------------------------------------------------------------
(* Scenario: calls that fail, in the builder, in the database or by a      *)
(* failure of the environment.                                             *)

FailOptions ==
    {Options(Some(0), Some(100), Some(<<>>), Some(<<>>), Some(<<>>), Some(<<>>), Some(<<>>)),
     Options(Some(0), Some(100), Some(<<>>), Some(<<Entry(ColB, TextFilter("equals", <<"x">>))>>),
             Some(<<>>), Some(<<ColDescA>>), Some(<<>>)),
     Options(None, Some(50), Some(<<>>), Some(<<>>), Some(<<>>), Some(<<>>), Some(<<>>)),
     Options(Some(0), Some(100), Some(<<>>), Some(<<>>), Some(<<>>), Some(<<ColDescA>>), None)}

InitFail ==
    \E o \in FailOptions, ec \in {"\"", BQ}, f \in Faults \cup {NoFault} :
        StartAll(o, ec, FixedTable, f, Idle)

SpecFail == InitFail /\ [][Next]_vars

--------------------------------------------------------------------------
(* Scenario: two concurrent calls.                                         *)

ConcOptions ==
    {Options(Some(0), Some(1), Some(<<SortItem(Some(ColA), Some(<<"desc">>))>>), Some(<<>>),
             Some(<<>>), Some(<<>>), Some(<<>>)),
     Options(Some(0), Some(100), Some(<<>>), Some(<<Entry(ColA, TextFilter("blank", <<>>))>>),
             Some(<<>>), Some(<<>>), Some(<<>>)),
     Options(Some(0), Some(100), Some(<<>>), Some(<<>>), Some(<<>>), Some(<<ColDescA>>),
             Some(<<>>)),
     Options(Some(0), Some(100), Some(<<>>), Some(<<>>), Some(<<Str(<<"x">>)>>),
             Some(<<ColDescA>>), Some(<<>>)),
     Options(None, Some(100), Some(<<>>), Some(<<>>), Some(<<>>), Some(<<>>), Some(<<>>))}

\* the second call, about to start with request o
OtherCall(o) == [Idle EXCEPT !.pc = "start", !.options = o]

InitConc ==
    \E o \in ConcOptions, o2 \in ConcOptions, ec \in {"\"", BQ} :
        StartAll(o, ec, FixedTable, NoFault, OtherCall(o2))

SpecConc == InitConc /\ [][NextConc]_vars

--------------------------------------------------------------------------
(* Scenario: one filter of every type and operator, alone or next to an    *)
(* entry of a filterType the builder does not know.                        *)

NumberFilter(type, filter, filterTo) ==
    [filterType |-> Some(<<"number">>), type |-> type, filter |-> filter,
     filterTo |-> filterTo, values |-> None]

FiltTextOps ==
    {"contains", "equals", "startsWith", "endsWith", "notContains", "blank", "notBlank",
     "regex"}

FiltTextEntries ==
    {Entry(ColA, FilterConfig(ft, ty, v)) :
        ft \in {Some(<<"text">>), None},
        ty \in {Some(<<op>>) : op \in FiltTextOps} \cup {None},
        v \in {None, Some(Str(<<>>)), Some(Str(<<"x">>))}}

FiltNumberOps ==
    {"equals", "greaterThan", "lessThan", "greaterThanOrEqual", "lessThanOrEqual",
     "inRange", "blank", "notBlank", "notEqual"}

FiltNumberEntries ==
    {Entry(ColA, NumberFilter(Some(<<op>>), Some(Num("10")), ft)) :
        op \in FiltNumberOps, ft \in {None, Some(Num("20"))}}
    \cup {Entry(ColA, NumberFilter(None, Some(Num("10")), None)),
          Entry(ColA, NumberFilter(Some(<<"lessThan">>), None, None))}

FiltSetEntries ==
    {Entry(ColA, SetFilter(vs)) :
        vs \in {None, Some(<<>>), Some(<<Str(<<"x">>)>>), Some(<<Str(<<"y">>), Str(<<"x">>)>>),
                Some(<<Str(<<"a", "'">>), Num("7"), Str(<<>>)>>)}}

FiltUnknownEntries ==
    {Entry(ColB, FilterConfig(Some(<<"date">>), Some(<<"equals">>), Some(Str(<<"x">>)))),
     Entry(ColB, FilterConfig(Some(<<"boolean">>), None, None))}

FiltKnownEntries == FiltTextEntries \cup FiltNumberEntries \cup FiltSetEntries

FiltFilterModels ==
    {<<e>> : e \in FiltKnownEntries \cup FiltUnknownEntries}
    \cup {<<u, e>> : u \in FiltUnknownEntries, e \in FiltKnownEntries}
    \cup {<<e, u>> : u \in FiltUnknownEntries, e \in FiltKnownEntries}

FiltOptions ==
    {Options(Some(0), Some(100), Some(<<>>), Some(fm), Some(g[2]), Some(g[1]), Some(<<>>)) :
        fm \in FiltFilterModels,
        g \in {<< <<>>, <<>> >>, << <<ColDescA>>, <<Str(<<"x">>)>> >>}}

InitFilt == \E o \in FiltOptions, ec \in {"\"", BQ} : Start(o, ec, FixedTable)

SpecFilt == InitFilt /\ [][Next]_vars

--------------------------------------------------------------------------
(* Scenario: requests whose lists are null.                                *)

NoneOptions ==
    {Options(Some(0), Some(100), sm, fm, gk, rgc, vc) :
        sm \in {None, Some(<<SortItem(Some(ColA), Some(<<"asc">>))>>)},
        fm \in {None, Some(<<>>), Some(<<Entry(ColB, TextFilter("equals", <<"x">>))>>)},
        gk \in {None, Some(<<>>), Some(<<Str(<<"x">>)>>),
                Some(<<Str(<<"x">>), Str(<<"y">>), Str(<<"x">>)>>)},
        rgc \in {None, Some(<<>>), Some(<<ColDescA>>), Some(<<ColDescA, ColDescB>>)},
        vc \in {None, Some(<<>>)}}

InitNone == \E o \in NoneOptions, ec \in {"\"", BQ} : Start(o, ec, FixedTable)

SpecNone == InitNone /\ [][Next]_vars

--------------------------------------------------------------------------
(* Scenario: request bodies whose bounds are absent, null or given.        *)

BodyBounds ==
    {<<s, e>> : s \in {Absent, Given(None), Given(Some(0)), Given(Some(100))},
                e \in {Absent, Given(None), Given(Some(0)), Given(Some(50)),
                       Given(Some(150))}}

Bodies ==
    {[startRow |-> b[1], endRow |-> b[2], sortModel |-> sm, filterModel |-> fm,
      groupKeys |-> Absent, rowGroupCols |-> rgc, valueCols |-> Absent] :
        b \in BodyBounds,
        sm \in {Absent, Given(Some(<<SortItem(Some(ColA), Some(<<"asc">>))>>))},
        fm \in {Absent, Given(Some(<<Entry(ColB, TextFilter("equals", <<"x">>))>>))},
        rgc \in {Absent, Given(Some(<<ColDescA>>))}}

InitBody ==
    \E body \in Bodies, ec \in {"\"", BQ} :
        /\ escape_char = ec
        /\ table = FixedTable
        /\ options = body
        /\ pc = "received"
        /\ main_query = <<>>
        /\ count_query = <<>>
        /\ total_count = 0
        /\ results = <<>>
        /\ fault = NoFault
        /\ error = None
        /\ log = <<>>
        /\ executed = <<>>
        /\ response = None
        /\ other = Idle
        /\ manager_args = DeployArgs(ec)
        /\ db_manager = create_database_manager(DeployArgs(ec)).manager
        /\ connections = NoConnections(TRUE)

SpecBody == InitBody /\ [][NextBody]_vars

--------------------------------------------------------------------------
(* Scenario: the rows of a backend that returns nested values, handed to   *)
(* format_query_results.  A second call has fetched the same rows.         *)

MaxDepth == 2

FmtLeaves ==
    {NullCell, StrCell(<<"x">>), FloatCell("nan"), FloatCell("inf"), FloatCell("-inf"),
     FloatCell("1.5")}

RECURSIVE FmtValues(_)
\* the values nested to depth d at most
FmtValues(d) ==
    IF d = 0 THEN FmtLeaves
    ELSE LET V == FmtValues(d - 1)
         IN V \cup {ListCell(<<>>), DictCell(<<>>)}
              \cup {ListCell(<<v>>) : v \in V}
              \cup {ListCell(<<StrCell(<<"x">>), v>>) : v \in V}
              \cup {DictCell(<<Item(<<"k">>, v)>>) : v \in V}
              \cup {DictCell(<<Item(<<"k">>, v), Item(<<"j">>, FloatCell("nan"))>>) : v \in V}

\* rows of two keys, in either order of the keys
FmtRows ==
    {<<Item(ColA, v), Item(ColB, StrCell(<<"x">>))>> : v \in FmtValues(MaxDepth)}
    \cup {<<Item(ColB, FloatCell("inf")), Item(ColA, v)>> : v \in FmtValues(MaxDepth)}

FmtRow0 == <<Item(ColB, StrCell(<<"y">>))>>

FmtResults ==
    {<<>>} \cup {<<r>> : r \in FmtRows} \cup {<<r, FmtRow0>> : r \in FmtRows}
           \cup {<<FmtRow0, r>> : r \in FmtRows}

FmtOptions == Options(Some(0), Some(100), Some(<<>>), Some(<<>>), Some(<<>>), Some(<<>>), Some(<<>>))

InitFmt ==
    \E rs \in FmtResults :
        /\ options = FmtOptions
        /\ escape_char = "\""
        /\ table = <<>>
        /\ pc = "fetched"
        /\ main_query = build_query(FmtOptions, "\"", DEFAULT_TABLE_NAME)
        /\ count_query = build_count_query(FmtOptions, "\"", DEFAULT_TABLE_NAME)
        /\ total_count = Len(rs)
        /\ results = rs
        /\ fault = NoFault
        /\ error = None
        /\ log = <<>>
        /\ executed = <<count_query, main_query>>
        /\ response = None
        /\ other = [pc |-> "fetched", options |-> FmtOptions, main_query |-> main_query,
                    count_query |-> count_query, total_count |-> Len(rs), results |-> rs]
        /\ manager_args = MainArgs
        /\ db_manager = create_database_manager(MainArgs).manager
        /\ connections = NoConnections(TRUE)

\* the last statements of perform_ssrm_query and the answer of the endpoint
NextFmt == Format \/ OtherFormat \/ Respond

SpecFmt == InitFmt /\ [][NextFmt]_vars

--------------------------------------------------------------------------
(* Scenario: the start of the application with every kind of arguments of  *)
(* create_database_manager, followed by a request.                         *)

SetupHosts == {Absent, Given(None), Given(Some(<<>>)), Given(Some(<<"h">>))}

SetupParams == {Absent, Given(Some(<<>>)), Given(Some(<<"v">>))}

SetupTableNames == {Absent, Given(DEFAULT_TABLE_NAME)}

SetupArgs ==
    {ManagerArgs("mysql", None, tn,
                 [host |-> h, database |-> d, user |-> u, password |-> pw, port |-> Absent], av) :
        tn \in SetupTableNames, h \in SetupHosts, d \in SetupParams, u \in SetupParams,
        pw \in SetupParams, av \in BOOLEAN}
    \cup {ManagerArgs(t, f, tn, NoMySQLParams, av) :
            t \in {"sqlite", "snowflake", "oracle"}, f \in {None, Some(<<"x.db">>)},
            tn \in SetupTableNames, av \in BOOLEAN}

SetupBody == [f \in DOMAIN FieldDefaults |-> Absent]

InitSetup ==
    \E a \in SetupArgs :
        /\ manager_args = a
        /\ db_manager = None
        /\ connections = NoConnections(TRUE)
        /\ escape_char = "\""
        /\ table = FixedTable
        /\ options = SetupBody
        /\ pc = "setup"
        /\ main_query = <<>>
        /\ count_query = <<>>
        /\ total_count = 0
        /\ results = <<>>
        /\ fault = NoFault
        /\ error = None
        /\ log = <<>>
        /\ executed = <<>>
        /\ response = None
        /\ other = Idle

SpecSetup == InitSetup /\ [][NextSetup]_vars

--------------------------------------------------------------------------
(* Scenario: the connections of the reads, on either backend, with every   *)
(* failure of the driver and under either kind of interpreter.             *)

InitConn ==
    \E o \in FailOptions, ec \in {"\"", BQ}, f \in Faults \cup {NoFault}, rc \in BOOLEAN :
        StartIn(o, ec, FixedTable, f, Idle, rc)

SpecConn == InitConn /\ [][NextConn]_vars

--------------------------------------------------------------------------
(* Scenario: the values a request can put in the sort field of a sortModel *)
(* entry.                                                                  *)

SortValues ==
    {None, Some(<<"asc">>), Some(<<"desc">>), Some(<<"Desc">>), Some(<<"sideways">>),
     Some(<<>>), Some(<<"asc", ", ", "b">>)}

SortItems == {SortItem(Some(c), v) : c \in {ColA, ColB}, v \in SortValues}

SortSortModels == SeqsUpTo(SortItems, 2)

SortOptions ==
    {Options(Some(0), Some(100), Some(sm), Some(<<>>), Some(<<>>), Some(rgc), Some(<<>>)) :
        sm \in SortSortModels, rgc \in {<<>>, <<ColDescA>>}}

InitSort == \E o \in SortOptions, ec \in {"\"", BQ} : Start(o, ec, FixedTable)

SpecSort == InitSort /\ [][Next]_vars

--------------------------------------------------------------------------
(* Scenario: every relation of the depth of the drill-down to the group    *)
(* columns, with descriptors that have both keys, one key or none.         *)

\* a descriptor without keys, {}
ColDescNone == Col(None, None)

CurRowGroupCols ==
    {<<>>, <<ColDescA>>, <<ColDescA, ColDescBC>>, <<ColDescD, ColDescA>>,
     <<ColDescNone>>, <<ColDescA, ColDescNone>>}

CurOptions ==
    {Options(Some(0), Some(100), Some(<<>>), Some(<<>>), Some(gk), Some(rgc), Some(vc)) :
        gk \in GroupKeys, rgc \in CurRowGroupCols, vc \in GroupValueCols}

InitCur == \E o \in CurOptions, ec \in {"\"", BQ} : Start(o, ec, FixedTable)

SpecCur == InitCur /\ [][Next]_vars

--------------------------------------------------------------------------
(* Reading the built statements *)

\* the first position of atom a in text, 0 when it is not there
AtomIndex(text, a) ==
    IF \E i \in 1..Len(text) : text[i] = a
    THEN CHOOSE i \in 1..Len(text) : text[i] = a /\ \A j \in 1..(i - 1) : text[j] # a
    ELSE 0

\* the part of text from its atom opener up to the first atom of followers
TextClause(text, opener, followers) ==
    LET i == AtomIndex(text, opener)
    IN IF i = 0 THEN <<>>
       ELSE LET ends == {j \in (i + 1)..Len(text) : text[j] \in followers}
                last == IF ends = {} THEN Len(text)
                        ELSE (CHOOSE j \in ends : \A k \in ends : j <= k) - 1
            IN SubSeq(text, i, last)

WhereText(text) == TextClause(text, " WHERE ", {" GROUP BY ", " ORDER BY ", " LIMIT "})

GroupByText(text) == TextClause(text, " GROUP BY ", {" ORDER BY ", " LIMIT "})

OrderByText(text) == TextClause(text, " ORDER BY ", {" LIMIT "})

LimitText(text) == TextClause(text, " LIMIT ", {})

\* the text before the WHERE, GROUP BY, ORDER BY and LIMIT clauses
SelectText(text) ==
    LET ends == {j \in 1..Len(text) : text[j] \in {" WHERE ", " GROUP BY ", " ORDER BY ", " LIMIT "}}
    IN IF ends = {} THEN text
       ELSE SubSeq(text, 1, (CHOOSE j \in ends : \A k \in ends : j <= k) - 1)

\* both statements are built
Built == pc \in {"built", "counted", "fetched", "done"}

\* the count query has been executed
Counted == pc \in {"counted", "fetched", "done"}

\* the request is grouped and has a current group column
HasCurrentGroupColumn ==
    /\ Len(options.rowGroupCols[1]) > 0
    /\ Len(options.groupKeys[1]) < Len(options.rowGroupCols[1])

\* the WHERE clause of the main query is true on the row
RowPasses(row) ==
    LET toks == Lex(main_query)
    IN ~HasClause(toks, "WHERE") \/ EvalWhere(WhereOf(toks), row) = "T"

PassingRows == {i \in 1..Len(table) : RowPasses(table[i])}

--------------------------------------------------------------------------
(* Claims *)

\* C1: total_count equals the number of rows the main query returns when
\* its LIMIT/OFFSET is removed, grouping inactive or a current group column
\* existing, the group column holding NULL or not.
C1_TotalCountIsUnpagedRowCount ==
    (Counted /\ (IsSelectStar(Lex(main_query)) \/ IsGroupCount(Lex(main_query))))
    => \A r \in UnpagedResults(Lex(main_query), table) : total_count = Len(r)

\* C2: in a non-grouped request a row satisfies the generated WHERE clause,
\* read with the precedence of SQL, exactly when it satisfies every clause
\* of filterModel, and rowCount is the number of such rows.
C2_WhereIsConjunctionOfFilterClauses ==
    (Counted /\ ~is_doing_grouping(options))
    => LET clauses == FilterParts(escape_char, options.filterModel[1])
           sat(row) == \A i \in 1..Len(clauses) : EvalWhere(Lex(clauses[i]), row) = "T"
       IN /\ \A i \in 1..Len(table) : RowPasses(table[i]) <=> sat(table[i])
          /\ total_count = Cardinality({i \in 1..Len(table) : sat(table[i])})

\* C4: with a current group column the count query is SELECT COUNT(DISTINCT
\* <escaped current group column>) FROM <table> and the WHERE clause, and
\* rowCount is the number of distinct (non-NULL) values of that column among
\* the rows that satisfy WHERE, not the number of rows; otherwise it is
\* SELECT COUNT(*) FROM <table> and the WHERE clause, the number of rows.
C4_CountQueryCountsGroups ==
    LET cur == options.rowGroupCols[1][Len(options.groupKeys[1]) + 1].id[1]
    IN /\ Built =>
            count_query =
                (IF HasCurrentGroupColumn
                 THEN <<"SELECT ", "COUNT", "(", "DISTINCT ", escape_char>> \o cur
                      \o <<escape_char, ")", " FROM ", "demo_data">>
                 ELSE <<"SELECT ", "COUNT", "(", "*", ")", " FROM ", "demo_data">>)
                \o WhereText(main_query)
       /\ Counted =>
            total_count =
                IF HasCurrentGroupColumn
                THEN Cardinality({table[i][cur].s : i \in {j \in PassingRows : ~table[j][cur].null}})
                ELSE Cardinality(PassingRows)

\* C4 witness: a grouped count that is smaller than the number of rows
C4_Witness ==
    /\ Counted
    /\ HasCurrentGroupColumn
    /\ total_count > 0
    /\ total_count < Cardinality(PassingRows)
    /\ AtomIndex(count_query, " WHERE ") > 0

\* text ends with suffix
EndsWith(text, suffix) ==
    /\ Len(text) >= Len(suffix)
    /\ SubSeq(text, Len(text) - Len(suffix) + 1, Len(text)) = suffix

\* a build step raised: the call ended before both statements were built
BuildFailed == pc = "raised" /\ (main_query = <<>> \/ count_query = <<>>)

\* C3: the WHERE clause text in the main query is the WHERE clause text in
\* the count query, and neither build step changes the request.
C3_SameWhereClause ==
    /\ [](Built => WhereText(main_query) = WhereText(count_query))
    /\ [][options' = options]_vars

\* C3 witness: both statements built for a grouped request whose WHERE
\* clause holds a group key and a filter
C3_Witness ==
    /\ Built
    /\ HasCurrentGroupColumn
    /\ Len(options.groupKeys[1]) > 0
    /\ Len(options.filterModel[1]) > 0
    /\ AtomIndex(WhereText(count_query), " AND") > 0

\* C7 as stated: no LIMIT/OFFSET exactly when startRow = 0 and endRow = 0,
\* else the main query ends with LIMIT <endRow - startRow> OFFSET <startRow>.
C7_Original ==
    Built =>
        IF options.startRow = Some(0) /\ options.endRow = Some(0)
        THEN AtomIndex(main_query, " LIMIT ") = 0 /\ AtomIndex(main_query, " OFFSET ") = 0
        ELSE /\ Len(options.startRow) = 1
             /\ Len(options.endRow) = 1
             /\ EndsWith(main_query,
                         <<" LIMIT ", ToString(options.endRow[1] - options.startRow[1]),
                           " OFFSET ", ToString(options.startRow[1])>>)

\* C7 amended: no LIMIT/OFFSET exactly when startRow = 0 and endRow = 0,
\* else the main query ends with LIMIT <page_size()> OFFSET <startRow>:
\* page_size() is endRow - startRow when both bounds are present and 100 when
\* either is missing, and a missing startRow is written None.
C7_LimitOffset ==
    Built =>
        IF options.startRow = Some(0) /\ options.endRow = Some(0)
        THEN AtomIndex(main_query, " LIMIT ") = 0 /\ AtomIndex(main_query, " OFFSET ") = 0
        ELSE EndsWith(main_query,
                      <<" LIMIT ",
                        IF Len(options.startRow) = 0 \/ Len(options.endRow) = 0 THEN "100"
                        ELSE ToString(options.endRow[1] - options.startRow[1]),
                        " OFFSET ",
                        IF Len(options.startRow) = 0 THEN "None"
                        ELSE ToString(options.startRow[1])>>)

\* C7 witness: a page with a missing endRow
C7_Witness ==
    /\ Built
    /\ options.startRow = Some(100)
    /\ options.endRow = None
    /\ EndsWith(main_query, <<" LIMIT ", "100", " OFFSET ", "100">>)

\* the direction ORDER BY writes for a sortModel entry
SortDirection(item) ==
    IF Len(item.sort) = 0 \/ item.sort = Some(<<"asc">>) THEN "ASC" ELSE "DESC"

RECURSIVE OrderList(_, _)
\* the ORDER BY list of the given sortModel entries
OrderList(items, ec) ==
    IF Len(items) = 0 THEN <<>>
    ELSE <<ec>> \o Head(items).colId[1] \o <<ec, " ", SortDirection(Head(items))>>
         \o (IF Len(items) > 1 THEN <<", ">> ELSE <<>>) \o OrderList(Tail(items), ec)

\* C8: under grouping a sortModel entry contributes to ORDER BY only if its
\* colId is an id of the first len(groupKeys) + 1 rowGroupCols or a valueCols
\* field; the others are dropped without error, and ORDER BY is empty when
\* all are dropped.  Without grouping every entry contributes.
C8_SortWhitelist ==
    LET rgc == options.rowGroupCols[1]
        depth == IF Len(options.groupKeys[1]) + 1 < Len(rgc)
                 THEN Len(options.groupKeys[1]) + 1 ELSE Len(rgc)
        sortable == {rgc[i].id[1] : i \in 1..depth}
                    \cup {options.valueCols[1][i].field[1] : i \in 1..Len(options.valueCols[1])}
        Retained(item) == Len(rgc) = 0 \/ item.colId[1] \in sortable
        kept == SelectSeq(options.sortModel[1], Retained)
    IN /\ ~BuildFailed
       /\ Built =>
            OrderByText(main_query) =
                IF Len(kept) = 0 THEN <<>>
                ELSE <<" ORDER BY ">> \o OrderList(kept, escape_char)

\* C8 witness: a grouped request of which one sort entry is kept and one dropped
C8_Witness ==
    /\ Built
    /\ Len(options.rowGroupCols[1]) > 1
    /\ Len(options.groupKeys[1]) = 0
    /\ Len(options.sortModel[1]) = 2
    /\ options.sortModel[1][1].colId = Some(ColB)
    /\ OrderByText(main_query) = <<" ORDER BY ", escape_char, "v", escape_char, " ", "ASC">>

RECURSIVE GroupPath(_, _, _, _)
\* the equalities of the group path for the first n group columns, from i
GroupPath(o, ec, i, n) ==
    IF i > n THEN <<>>
    ELSE <<ec>> \o DictGet(o.rowGroupCols[1][i].field, DictGet(o.rowGroupCols[1][i].id, <<>>))
         \o <<ec, " =", " ", "'">> \o o.groupKeys[1][i].s \o <<"'">>
         \o (IF i < n THEN <<" AND", " ">> ELSE <<>>)
         \o GroupPath(o, ec, i + 1, n)

\* C9: at the leaf level or beyond (len(groupKeys) >= len(rowGroupCols) > 0)
\* the main query is SELECT * FROM <table> without GROUP BY, the count query
\* is COUNT(*), WHERE holds one equality for every group column, the surplus
\* keys add nothing, and no error is raised.
C9_LeafLevel ==
    LET n == Len(options.rowGroupCols[1])
        filters == FilterParts(escape_char, options.filterModel[1])
    IN /\ ~BuildFailed
       /\ (Built /\ n > 0 /\ Len(options.groupKeys[1]) >= n) =>
            /\ SelectText(main_query) = <<"SELECT ", "*", " FROM ", "demo_data">>
            /\ GroupByText(main_query) = <<>>
            /\ SelectText(count_query) = <<"SELECT ", "COUNT", "(", "*", ")", " FROM ", "demo_data">>
            /\ WhereText(main_query) =
                    <<" WHERE ">> \o GroupPath(options, escape_char, 1, n)
                    \o (IF Len(filters) = 0 THEN <<>>
                        ELSE <<" AND", " ">> \o JoinParts(filters, <<" AND", " ">>))

\* C9 witness: more group keys than group columns
C9_Witness ==
    /\ Built
    /\ Len(options.rowGroupCols[1]) = 2
    /\ Len(options.groupKeys[1]) = 3
    /\ options.rowGroupCols[1][2] = ColDescBC
    /\ AtomIndex(main_query, " WHERE ") > 0

\* the aggregation function the SELECT list writes for a valueCols entry
WrittenAggFunc(vc) ==
    IF Len(vc.aggFunc) = 1 /\ vc.aggFunc[1] \in {<<"sum">>, <<"avg">>, <<"count">>, <<"min">>, <<"max">>}
    THEN vc.aggFunc[1] ELSE <<"sum">>

RECURSIVE AggList(_, _)
\* , <aggFunc>(<escaped field>) as <escaped field> for every entry
AggList(vcs, ec) ==
    IF Len(vcs) = 0 THEN <<>>
    ELSE <<", ">> \o WrittenAggFunc(Head(vcs)) \o <<"(", ec>> \o Head(vcs).field[1]
         \o <<ec, ")", " as ", ec>> \o Head(vcs).field[1] \o <<ec>>
         \o AggList(Tail(vcs), ec)

\* C10: with a current group column SELECT projects the escaped group
\* column, then <aggFunc>(<escaped field>) as <escaped field> for every
\* valueCols entry in order, aggFunc being the requested function when it is
\* supported and sum otherwise, or count(*) as "count" when valueCols is
\* empty; no other aggregation function is ever written.
C10_GroupedSelect ==
    LET cur == options.rowGroupCols[1][Len(options.groupKeys[1]) + 1].id[1]
        vcs == options.valueCols[1]
        sel == SelectText(main_query)
    IN /\ (Built /\ HasCurrentGroupColumn) =>
            sel = <<"SELECT ", escape_char>> \o cur \o <<escape_char>>
                  \o (IF Len(vcs) = 0
                      THEN <<", ", "count", "(", "*", ")", " as ", "\"", "count", "\"">>
                      ELSE AggList(vcs, escape_char))
                  \o <<" FROM ", "demo_data">>
       /\ Built => \A j \in 2..Len(sel) :
                      sel[j] = "(" => sel[j - 1] \in {"sum", "avg", "count", "min", "max"}

\* C10 witness: a grouped request that asks for an unsupported function
C10_Witness ==
    /\ Built
    /\ HasCurrentGroupColumn
    /\ Len(options.valueCols[1]) = 2
    /\ options.valueCols[1][1].aggFunc = Some(<<"median">>)
    /\ AtomIndex(main_query, "sum") > 0

\* the literals of a statement, in order
Literals(toks) ==
    LET IsStr(tok) == tok.t = "str"
        strs == SelectSeq(toks, IsStr)
    IN [i \in 1..Len(strs) |-> strs[i].v]

\* the kinds of the tokens of a statement, every numeral taken as one kind
Shape(toks) ==
    [i \in 1..Len(toks) |->
        IF toks[i].t = "kw"
        THEN (IF NumOf(toks[i].v[1]) >= 0 THEN "number" ELSE toks[i].v[1])
        ELSE toks[i].t]

\* a name without the characters that are not letters
PlainName(opt) ==
    LET IsLetter(a) == a \in {"a", "b", "c", "d", "v", "w", "x", "y", "z"}
    IN IF Len(opt) = 0 THEN opt ELSE Some(SelectSeq(opt[1], IsLetter))

\* a plain value in the place of a request value
PlainValue(v, numeric) ==
    IF numeric THEN Num("0")
    ELSE IF v.isStr /\ Len(v.s) > 0 THEN Str(<<"x">>) ELSE v

PlainConfig(c) ==
    LET numeric == c.filterType = Some(<<"number">>)
    IN [c EXCEPT
          !.filter = IF Len(@) = 0 THEN @ ELSE Some(PlainValue(@[1], numeric)),
          !.filterTo = IF Len(@) = 0 THEN @ ELSE Some(PlainValue(@[1], numeric)),
          !.values = IF Len(@) = 0 THEN @
                     ELSE Some([i \in 1..Len(@[1]) |-> PlainValue(@[1][i], FALSE)])]

\* the request with plain names and plain values in the same places
Plain(o) ==
    [o EXCEPT
       !.sortModel = Some([i \in 1..Len(@[1]) |-> [@[1][i] EXCEPT !.colId = PlainName(@)]]),
       !.filterModel = Some([i \in 1..Len(@[1]) |->
                               Entry(PlainName(Some(@[1][i].key))[1], PlainConfig(@[1][i].config))]),
       !.groupKeys = Some([i \in 1..Len(@[1]) |-> PlainValue(@[1][i], FALSE)]),
       !.rowGroupCols = Some([i \in 1..Len(@[1]) |->
                               [@[1][i] EXCEPT !.id = PlainName(@), !.field = PlainName(@)]]),
       !.valueCols = Some([i \in 1..Len(@[1]) |-> [@[1][i] EXCEPT !.field = PlainName(@)]])]

\* both statements read as the statements of the plain request do
SameShapeAsPlain ==
    /\ Shape(Lex(main_query))
         = Shape(Lex(build_query(Plain(options), escape_char, DEFAULT_TABLE_NAME)))
    /\ Shape(Lex(count_query))
         = Shape(Lex(build_count_query(Plain(options), escape_char, DEFAULT_TABLE_NAME)))

RECURSIVE FilterLiterals(_)
\* the values the filter model compares with, in order
FilterLiterals(entries) ==
    IF Len(entries) = 0 THEN <<>>
    ELSE LET c == Head(entries).config
             v == c.filter[1].s
             own == IF c.filterType = Some(<<"set">>)
                    THEN [i \in 1..Len(c.values[1]) |-> c.values[1][i].s]
                    ELSE IF c.type = Some(<<"blank">>) THEN << <<>> >>
                    ELSE IF Len(v) = 0 THEN <<>>
                    ELSE IF c.type = Some(<<"equals">>) THEN <<v>>
                    ELSE IF c.type = Some(<<"startsWith">>) THEN <<v \o <<"%">> >>
                    ELSE IF c.type = Some(<<"endsWith">>) THEN << <<"%">> \o v>>
                    ELSE << <<"%">> \o v \o <<"%">> >>
         IN own \o FilterLiterals(Tail(entries))

\* the values the request compares with: group keys, then filter values
RequestLiterals(o) ==
    [i \in 1..Len(o.groupKeys[1]) |-> o.groupKeys[1][i].s] \o FilterLiterals(o.filterModel[1])

C6_NothingLeavesItsContext == Built => SameShapeAsPlain

\* C11: perform_ssrm_query is all or nothing.  A call in which a build, a
\* read or the formatting raised ends raised and returns no pair; the
\* endpoint then answers once, with status 500 and the message of the
\* exception and without rowData or rowCount; a 200 answer carries the pair of
\* a call in which nothing raised.
C11_AllOrNothing ==
    /\ [](error # None => pc = "raised")
    /\ [](pc = "done" => error = None /\ fault = NoFault /\ ~BuildRaises(options))
    /\ [](response # None =>
            IF pc = "raised"
            THEN /\ response[1].status = 500
                 /\ response[1].rowData = None
                 /\ response[1].rowCount = None
                 /\ response[1].detail
                      = Some(<<"Error processing SSRM request: ">> \o error[1].msg)
            ELSE /\ pc = "done"
                 /\ response[1].status = 200
                 /\ response[1].rowData = Some(results)
                 /\ response[1].rowCount = Some(total_count))
    /\ [][response = None \/ response' = response]_vars

\* C11 witness: the answer to a call whose count succeeded and whose main
\* read failed
C11_Witness ==
    /\ response # None
    /\ pc = "raised"
    /\ total_count > 0
    /\ fault.at = "main"
    /\ response[1].status = 500

\* C20: a backend read that fails on connect or execute is logged with the
\* SQL text of the statement, the same exception reaches the caller, and the
\* statement is sent once and no other statement in its place, with the
\* SQLite and with the MySQL connection, whatever the class of the exception.
C20_ReadFailureLoggedAndPropagated ==
    (pc = "raised" /\ count_query # <<>> /\ fault.at # "format") =>
        /\ \E i \in 1..Len(log) : log[i].query # None
        /\ \A i \in 1..Len(log) :
              /\ log[i].what = "count" => log[i].query = Some(count_query)
              /\ log[i].what = "main" => log[i].query = Some(main_query)
              /\ log[i].msg = error[1].msg
        /\ error \in {Some(FaultExc), Some(SqlExc)}
        /\ executed \in {<<>>, <<count_query>>, <<count_query, main_query>>}

\* the pair (n, rows) is a pair the call with request o returns when it
\* runs alone on the table
ReturnedAlone(o, n, rows) ==
    /\ ~BuildRaises(o)
    /\ [ok |-> TRUE, n |-> n]
          \in ExecCount(build_count_query(o, escape_char, DEFAULT_TABLE_NAME), table)
    /\ \E r \in ExecRows(build_query(o, escape_char, DEFAULT_TABLE_NAME), table) :
          r.ok /\ rows = format_query_results(r.rows)

\* the call with request o raises when it runs alone on the table
RaisesAlone(o) ==
    \/ BuildRaises(o)
    \/ \E r \in ExecCount(build_count_query(o, escape_char, DEFAULT_TABLE_NAME), table) : ~r.ok
    \/ \E r \in ExecRows(build_query(o, escape_char, DEFAULT_TABLE_NAME), table) : ~r.ok

\* C12: in every interleaving of two calls on the same unchanged table each
\* call returns a pair it returns when it runs alone, and raises only if it
\* raises alone; no step changes the configuration (escape character), the
\* table or the request of either call.
C12_ConcurrentCallsIndependent ==
    /\ [](pc = "done" => ReturnedAlone(options, total_count, results))
    /\ [](other.pc = "done" => ReturnedAlone(other.options, other.total_count, other.results))
    /\ [](pc = "raised" => RaisesAlone(options))
    /\ [](other.pc = "raised" => RaisesAlone(other.options))
    /\ [][/\ escape_char' = escape_char
          /\ table' = table
          /\ options' = options
          /\ other'.options = other.options]_vars

\* C12 witness: both calls returned, with different requests and different
\* results, the second having run its reads between the reads of the first
C12_Witness ==
    /\ pc = "done"
    /\ other.pc = "done"
    /\ options # other.options
    /\ results # other.results
    /\ total_count # other.total_count
    /\ executed = <<count_query, other.count_query, other.main_query, main_query>>

SingleFilter == Len(options.groupKeys[1]) = 0 /\ Len(options.filterModel[1]) = 1

\* the column of the first filterModel entry between escape characters
FilterColumn == <<escape_char>> \o options.filterModel[1][1].key \o <<escape_char>>

\* WHERE and the clause, nothing when there is no clause
WhereOfClause(clause) == IF Len(clause) = 0 THEN <<>> ELSE <<" WHERE ">> \o clause

\* C14: a text filter with a non-empty value v gives <col> LIKE '%v%',
\* <col> = 'v', <col> LIKE 'v%', <col> LIKE '%v', <col> NOT LIKE '%v%' for
\* contains, equals, startsWith, endsWith, notContains; blank and notBlank give
\* <col> IS NULL OR <col> = '' and <col> IS NOT NULL AND <col> != '' whatever
\* the value; an empty value with another operator, or an operator outside
\* the list, gives no clause.
C14_TextFilterClause ==
    LET cfg == options.filterModel[1][1].config
        c == FilterColumn
        op == cfg.type[1][1]
        v == IF Len(cfg.filter) = 0 THEN <<>> ELSE cfg.filter[1].s
        clause ==
            IF op = "blank" THEN c \o <<" IS NULL", " OR ">> \o c \o <<" =", " ", "'", "'">>
            ELSE IF op = "notBlank"
            THEN c \o <<" IS NOT NULL", " AND", " ">> \o c \o <<" !=", " ", "'", "'">>
            ELSE IF Len(v) = 0 THEN <<>>
            ELSE IF op = "contains" THEN c \o <<" LIKE ", "'", "%">> \o v \o <<"%", "'">>
            ELSE IF op = "equals" THEN c \o <<" =", " ", "'">> \o v \o <<"'">>
            ELSE IF op = "startsWith" THEN c \o <<" LIKE ", "'">> \o v \o <<"%", "'">>
            ELSE IF op = "endsWith" THEN c \o <<" LIKE ", "'", "%">> \o v \o <<"'">>
            ELSE IF op = "notContains"
            THEN c \o <<" NOT LIKE ", "'", "%">> \o v \o <<"%", "'">>
            ELSE <<>>
    IN (Built /\ SingleFilter /\ cfg.filterType = Some(<<"text">>) /\ Len(cfg.type) = 1)
       => /\ WhereText(main_query) = WhereOfClause(clause)
          /\ WhereText(count_query) = WhereOfClause(clause)

\* C14 witness: an endsWith filter with a value
C14_Witness ==
    /\ Built
    /\ SingleFilter
    /\ options.filterModel[1][1].config = TextFilter("endsWith", <<"x">>)
    /\ WhereText(main_query) = <<" WHERE ">> \o FilterColumn \o <<" LIKE ", "'", "%", "x", "'">>

\* C15: a number filter gives <col> <op> <filter> with =, >, <, >=, <= for
\* equals, greaterThan, lessThan, greaterThanOrEqual, lessThanOrEqual,
\* <col> BETWEEN <filter> AND <filterTo> for inRange, <col> IS NULL OR
\* <col> = 0 and <col> IS NOT NULL AND <col> != 0 for blank and notBlank, and
\* no clause for any other operator.
C15_NumberFilterClause ==
    LET cfg == options.filterModel[1][1].config
        c == FilterColumn
        op == cfg.type[1][1]
        f == cfg.filter[1].s
        clause ==
            IF op = "equals" THEN c \o <<" =", " ">> \o f
            ELSE IF op = "greaterThan" THEN c \o <<" >", " ">> \o f
            ELSE IF op = "lessThan" THEN c \o <<" <", " ">> \o f
            ELSE IF op = "greaterThanOrEqual" THEN c \o <<" >=", " ">> \o f
            ELSE IF op = "lessThanOrEqual" THEN c \o <<" <=", " ">> \o f
            ELSE IF op = "inRange"
            THEN c \o <<" BETWEEN ">> \o f \o <<" AND", " ">> \o cfg.filterTo[1].s
            ELSE IF op = "blank" THEN c \o <<" IS NULL", " OR ">> \o c \o <<" =", " ", "0">>
            ELSE IF op = "notBlank"
            THEN c \o <<" IS NOT NULL", " AND", " ">> \o c \o <<" !=", " ", "0">>
            ELSE <<>>
    IN (/\ Built /\ SingleFilter
        /\ cfg.filterType = Some(<<"number">>)
        /\ Len(cfg.type) = 1 /\ Len(cfg.filter) = 1
        /\ (cfg.type = Some(<<"inRange">>) => Len(cfg.filterTo) = 1))
       => /\ WhereText(main_query) = WhereOfClause(clause)
          /\ WhereText(count_query) = WhereOfClause(clause)

\* C15 witness: inRange from 10 to 20
C15_Witness ==
    /\ Built
    /\ SingleFilter
    /\ options.filterModel[1][1].config.type = Some(<<"inRange">>)
    /\ WhereText(main_query)
         = <<" WHERE ">> \o FilterColumn \o <<" BETWEEN ", "10", " AND", " ", "20">>

RECURSIVE ListTokens(_)
\* the tokens of a list of literals: the literals with commas between them
ListTokens(values) ==
    IF Len(values) = 0 THEN <<>>
    ELSE <<Tok("str", Head(values).s)>>
         \o (IF Len(values) > 1 THEN <<Kw(",")>> ELSE <<>>)
         \o ListTokens(Tail(values))

\* C16: a set filter with a non-empty values list gives <escaped col> IN
\* (...) whose literals are the given values in the given order, each
\* escaped; with an empty or missing values list it gives no clause.
C16_SetFilterClause ==
    LET cfg == options.filterModel[1][1].config
        expected ==
            IF Len(cfg.values) = 0 \/ Len(cfg.values[1]) = 0 THEN <<>>
            ELSE <<Kw("WHERE"), Tok("id", options.filterModel[1][1].key), Kw("IN"), Kw("(")>>
                 \o ListTokens(cfg.values[1]) \o <<Kw(")")>>
    IN (Built /\ SingleFilter /\ cfg.filterType = Some(<<"set">>))
       => /\ Lex(WhereText(main_query)) = expected
          /\ Lex(WhereText(count_query)) = expected
          /\ (Len(expected) > 0 =>
                SubSeq(WhereText(main_query), 2, 4) = FilterColumn)

\* C16 witness: three values, one with a single quote, one empty
C16_Witness ==
    /\ Built
    /\ SingleFilter
    /\ options.filterModel[1][1].config.filterType = Some(<<"set">>)
    /\ Len(options.filterModel[1][1].config.values[1]) = 3
    /\ AtomIndex(main_query, " IN ") > 0

\* the filterType of the entry is none of text, number, set
UnknownType(entry) ==
    /\ Len(entry.config.filterType) = 1
    /\ entry.config.filterType[1] \notin {<<"text">>, <<"number">>, <<"set">>}

\* the request without entry i of filterModel
WithoutEntry(o, i) ==
    [o EXCEPT !.filterModel =
        Some(SubSeq(@[1], 1, i - 1) \o SubSeq(@[1], i + 1, Len(@[1])))]

\* C17: a filterModel entry whose filterType is not text, number or set
\* adds no clause and raises no error: both statements are those of the
\* request without the entry, and when no entry and no group key contributes
\* the statements have no WHERE.
C17_UnknownFilterTypeDropped ==
    /\ ~BuildFailed
    /\ Built =>
         /\ \A i \in 1..Len(options.filterModel[1]) :
               UnknownType(options.filterModel[1][i]) =>
                  /\ main_query = build_query(WithoutEntry(options, i), escape_char,
                                              DEFAULT_TABLE_NAME)
                  /\ count_query = build_count_query(WithoutEntry(options, i), escape_char,
                                                     DEFAULT_TABLE_NAME)
         /\ (/\ Len(options.groupKeys[1]) = 0
             /\ \A i \in 1..Len(options.filterModel[1]) : UnknownType(options.filterModel[1][i]))
            => /\ AtomIndex(main_query, " WHERE ") = 0
               /\ AtomIndex(count_query, " WHERE ") = 0

\* C17 witness: an entry of type date before a text filter that contributes
C17_Witness ==
    /\ Built
    /\ Len(options.filterModel[1]) = 2
    /\ options.filterModel[1][1].config.filterType = Some(<<"date">>)
    /\ options.filterModel[1][2].config = TextFilter("equals", <<"x">>)
    /\ WhereText(main_query)
         = <<" WHERE ", escape_char, "a", escape_char, " =", " ", "'", "x", "'">>

\* C18: is_doing_grouping() is true exactly when rowGroupCols is not empty,
\* and get_row_group_column() is rowGroupCols[len(groupKeys)] when
\* len(groupKeys) < len(rowGroupCols) and None otherwise, also with more group
\* keys than group columns and with null lists; the main query groups exactly
\* when there is such a column.
C18_GroupingHelpers ==
    LET cols == IF Len(options.rowGroupCols) = 0 THEN <<>> ELSE options.rowGroupCols[1]
        depth == IF Len(options.groupKeys) = 0 THEN 0 ELSE Len(options.groupKeys[1])
    IN /\ is_doing_grouping(options) <=> Len(cols) > 0
       /\ get_row_group_column(options)
            = IF depth < Len(cols) THEN Some(cols[depth + 1]) ELSE None
       /\ Built => (AtomIndex(main_query, " GROUP BY ") > 0 <=> depth < Len(cols))

\* C18 witness: more group keys than group columns, built without GROUP BY
C18_Witness ==
    /\ Built
    /\ options.rowGroupCols = Some(<<ColDescA, ColDescB>>)
    /\ Len(options.groupKeys) = 1
    /\ Len(options.groupKeys[1]) = 3
    /\ get_row_group_column(options) = None
    /\ is_doing_grouping(options)

\* the page size the bounds of the request stand for
RequestedPageSize ==
    IF Len(options.startRow) = 1 /\ Len(options.endRow) = 1
    THEN options.endRow[1] - options.startRow[1]
    ELSE 100

\* page_size() is endRow - startRow with both bounds present and 100 with a
\* bound missing, and a body that gives neither bound gets startRow 0,
\* endRow 500 and the page size 500
PageSizeAsStated ==
    pc # "received" =>
        /\ page_size(options) = RequestedPageSize
        /\ (Built /\ LimitText(main_query) # <<>>)
             => LimitText(main_query)[2] = ToString(RequestedPageSize)
        /\ ("startRow" \notin options.fields_set /\ "endRow" \notin options.fields_set)
             => /\ options.startRow = Some(0)
                /\ options.endRow = Some(500)
                /\ page_size(options) = 500
                /\ Built => LimitText(main_query) = <<" LIMIT ", "500", " OFFSET ", "0">>

\* C19: page_size() is endRow - startRow with both bounds present and 100
\* with a bound missing; a request that gives neither bound gets the window
\* 0..500 and the page size 500; a request with a missing bound is defaulted
\* and not rejected: its call does not end with an exception.
C19_PageSizeDefaults ==
    /\ PageSizeAsStated
    /\ pc = "raised" => (Len(options.startRow) = 1 /\ Len(options.endRow) = 1)

RECURSIVE CleanedFrom(_, _)
\* w is v with every float that is NaN or an infinity replaced by None, at
\* every depth of its lists and dicts, and nothing else changed
CleanedFrom(v, w) ==
    IF v.kind = "scalar"
    THEN IF v.float /\ v.s \in {<<"nan">>, <<"inf">>, <<"-inf">>} THEN w = NullCell ELSE w = v
    ELSE /\ w.kind = v.kind
         /\ Len(w.items) = Len(v.items)
         /\ \A i \in 1..Len(v.items) :
               IF v.kind = "dict"
               THEN /\ w.items[i].key = v.items[i].key
                    /\ CleanedFrom(v.items[i].val, w.items[i].val)
               ELSE CleanedFrom(v.items[i], w.items[i])

\* out is rows formatted: a row for every row, in the order of the rows,
\* with the keys of the row in their order and every value cleaned
FormattedFrom(rows, out) ==
    /\ Len(out) = Len(rows)
    /\ \A i \in 1..Len(rows) :
          /\ Len(out[i]) = Len(rows[i])
          /\ \A k \in 1..Len(rows[i]) :
                /\ out[i][k].key = rows[i][k].key
                /\ CleanedFrom(rows[i][k].val, out[i][k].val)

\* a NaN or an infinity somewhere below the top of a value
RECURSIVE HasNonFinite(_)
HasNonFinite(v) ==
    IF v.kind = "scalar" THEN v.float /\ IsNanOrInf(v)
    ELSE \E i \in 1..Len(v.items) :
            HasNonFinite(IF v.kind = "dict" THEN v.items[i].val ELSE v.items[i])

\* C21: format_query_results returns one row per input row in the order of
\* the input, each with the keys of its row in their order; a float that is
\* NaN, +Infinity or -Infinity is replaced by None at any depth of nested
\* dicts and lists, and every other value is returned as it was.
C21_FormatKeepsRowsAndCleansFloats ==
    [][pc # "fetched" \/ pc' # "done" \/ FormattedFrom(results, results')]_vars

\* two rows are formatted, the first with the key b before the key a and
\* a non-finite float two levels down; the second call still holds the rows
\* as the backend returned them
C21_Witness ==
    /\ pc = "done" /\ other.pc = "fetched"
    /\ Len(results) = 2
    /\ Len(other.results[1]) = 2
    /\ other.results[1][1].key = ColB
    /\ other.results[1][2].val.kind = "list"
    /\ Len(other.results[1][2].val.items) = 2
    /\ other.results[1][2].val.items[2].kind = "dict"
    /\ HasNonFinite(other.results[1][2].val.items[2])
    /\ results # other.results
    /\ FormattedFrom(other.results, results)

\* a MySQL parameter is not given or is given empty
Missing(param) == ~param.given \/ ~Truthy(param.v)

\* the start of the application failed
SetupFailed == pc = "setup_failed"

\* what holds of every set-up, whatever the MySQL parameters: an unsupported
\* type and a kind without a connection class raise, nothing is built or
\* executed after an exception, and a returned manager holds the connection
\* object of its kind, the table name and the quote character of the dialect
SetupContract ==
    pc # "setup" =>
        /\ manager_args.database_type \notin {"sqlite", "mysql", "snowflake"} => SetupFailed
        /\ manager_args.database_type = "snowflake" => SetupFailed
        /\ SetupFailed => /\ db_manager = None
                          /\ Len(error) = 1
                          /\ executed = <<>> /\ main_query = <<>> /\ count_query = <<>>
        /\ ~SetupFailed =>
              /\ Len(db_manager) = 1
              /\ manager_args.database_type \in {"sqlite", "mysql"}
              /\ db_manager[1].connection =
                    (IF manager_args.database_type = "sqlite" THEN "SQLiteConnection"
                     ELSE "MySQLConnection")
              /\ db_manager[1].config.table_name =
                    (IF manager_args.table_name.given THEN manager_args.table_name.v
                     ELSE <<"data">>)
              /\ db_manager[1].config.escape_char =
                    (IF manager_args.database_type = "sqlite" THEN "\"" ELSE BQ)
              /\ escape_char = db_manager[1].config.escape_char

OrderByColumns(text) ==
    LET ob == OrderByOf(Lex(text))
    IN {ob[i].v : i \in {j \in 1..Len(ob) : ob[j].t = "id"}}

\* the columns of the projection of an aggregated statement: the current
\* group column and the aliases of the aggregations
ProjectedColumns(o) ==
    {IdThenField(get_row_group_column(o)[1])}
    \cup {FieldThenId(o.valueCols[1][i]) : i \in 1..Len(o.valueCols[1])}
    \cup (IF Len(o.valueCols[1]) = 0 THEN {<<"count">>} ELSE {})

\* the main query is aggregated: it has a GROUP BY clause
Aggregated == Built /\ GroupByText(main_query) # <<>>

\* the sortModel names no group column of an expanded level
NoAncestorSorted ==
    \A i \in 1..Len(options.sortModel[1]), k \in 1..Len(options.groupKeys[1]) :
        k <= Len(options.rowGroupCols[1])
            => options.sortModel[1][i].colId # Some(IdThenField(options.rowGroupCols[1][k]))

\* the claim holds of the requests that sort by no ancestor group column
OrderByWithinProjectionAtTop ==
    (Aggregated /\ NoAncestorSorted)
        => OrderByColumns(main_query) \subseteq ProjectedColumns(options)

\* C23: in every aggregated main query every column named in ORDER BY is in
\* the SELECT projection, the current group column or the alias of a
\* valueCols aggregation, at every drill depth and also when sortModel names
\* the group column of an expanded ancestor level.
C23_OrderByWithinProjection ==
    Aggregated => OrderByColumns(main_query) \subseteq ProjectedColumns(options)

\* C24: within one call both statements are built before anything is
\* executed, the count query is executed before the main query, each at most
\* once and both exactly once in a call that returns, and after a failure of
\* the count query nothing more is executed.
C24_StepsInOrder ==
    [][/\ (pc \in {"start", "main_built"} => executed' = <<>>)
       /\ (pc = "built" => /\ main_query # <<>> /\ count_query # <<>>
                           /\ executed = <<>>
                           /\ executed' \in {<<>>, <<count_query>>})
       /\ (pc' = "counted" => executed' = <<count_query>>)
       /\ (pc = "counted" => executed' \in {<<count_query>>, <<count_query, main_query>>})
       /\ (pc' \in {"fetched", "done"} => executed' = <<count_query, main_query>>)
       /\ (pc = "raised" => executed' = executed /\ pc' = "raised")]_vars

\* the count query was sent and failed: the main query, built before, has
\* not been executed when the endpoint answers
C24_Witness ==
    /\ pc = "raised"
    /\ fault.at = "count" /\ fault.stage = "execute"
    /\ main_query # <<>>
    /\ executed = <<count_query>>
    /\ Len(response) = 1

\* the reads that returned have released their connections where the code
\* or the interpreter closes them: on MySQL, and on SQLite when objects are
\* finalised as their last reference goes
ReleasedOnSuccess ==
    (/\ pc \in {"start", "main_built", "built", "counted", "fetched", "done"}
     /\ connections.reads = 0
     /\ Backend(escape_char) = "mysql" \/ connections.refcounted)
        => connections.open = 0

\* C25: every connection acquired by execute_query, execute_count_query,
\* get_table_columns or get_table_count is closed by the time the operation
\* returns or raises: between operations no connection is open, on SQLite
\* and on MySQL, after successful and after failing operations.
C25_ConnectionsReleased == connections.open = 0

\* the sortModel entries that are retained: all of them without grouping,
\* those of the whitelist under grouping
RetainedSorts(o) ==
    LET Retained(item) ==
            ~is_doing_grouping(o) \/ DictGet(item.colId, <<>>) \in allowed_sort_cols(o)
    IN SelectSeq(o.sortModel[1], Retained)

\* the ORDER BY clause of the entries with the directions dirs
OrderByOf2(items, dirs, ec) ==
    IF Len(items) = 0 THEN <<>>
    ELSE <<" ORDER BY ">>
         \o JoinParts([i \in 1..Len(items) |->
                          <<ec>> \o items[i].colId[1] \o <<ec, " ", dirs[i]>>], <<", ">>)

\* ORDER BY lists the retained entries in their order, each with ASC or DESC
OrderByAsStated ==
    LET kept == RetainedSorts(options)
    IN \E dirs \in [1..Len(kept) -> {"ASC", "DESC"}] :
          OrderByText(main_query) = OrderByOf2(kept, dirs, escape_char)

\* every sort field of the request is missing or asc or desc in some case
SortFieldsKnown ==
    \A i \in 1..Len(options.sortModel[1]) :
        options.sortModel[1][i].sort \in {None, Some(<<"asc">>), Some(<<"desc">>), Some(<<"Desc">>)}

\* the claim holds of the requests whose sort fields are asc or desc
OrderByOfKnownSorts == (Built /\ SortFieldsKnown) => OrderByAsStated

\* C26: ORDER BY lists the retained sortModel entries in the order of
\* sortModel, each as the escaped colId and a direction that is exactly ASC
\* or DESC, whatever the sort field of the entry holds; an empty sortModel
\* gives no ORDER BY clause.
C26_OrderByDirections == Built => OrderByAsStated

\* GROUP BY is present exactly under cond; when present it names the column
\* the SELECT list starts with, and the SELECT list holds an aggregation
\* exactly when GROUP BY is present
GroupByWhen(cond) ==
    LET gb == GroupByText(main_query)
        sel == SelectText(main_query)
        g == Tail(gb)
    IN Built =>
        /\ (gb # <<>>) <=> cond
        /\ gb # <<>> => /\ Len(g) >= 2
                        /\ g[1] = escape_char /\ g[Len(g)] = escape_char
                        /\ Len(sel) > Len(g) + 1
                        /\ SubSeq(sel, 2, Len(g) + 1) = g
                        /\ sel[Len(g) + 2] = ", "
        /\ (\E j \in 1..Len(sel) : sel[j] = "(") <=> (gb # <<>>)

\* C27 as stated: GROUP BY is present exactly when rowGroupCols is not empty
\* and groupKeys is shorter than rowGroupCols.
C27_Original == GroupByWhen(HasCurrentGroupColumn)

\* C27: GROUP BY is present exactly when rowGroupCols is not empty, groupKeys
\* is shorter than rowGroupCols and the entry rowGroupCols[len(groupKeys)]
\* is not an empty object; when present it names the column the SELECT
\* clause projects as the group column, and the SELECT clause holds
\* aggregations exactly when GROUP BY is present.
C27_GroupByIffCurrentColumn ==
    GroupByWhen(/\ HasCurrentGroupColumn
                /\ ColTruthy(options.rowGroupCols[1][Len(options.groupKeys[1]) + 1]))

\* one level is expanded and the statement groups by the second column
C27_Witness ==
    /\ Built
    /\ options.rowGroupCols[1] = <<ColDescD, ColDescA>>
    /\ Len(options.groupKeys[1]) = 1
    /\ GroupByText(main_query) = <<" GROUP BY ", escape_char, "a", escape_char>>
    /\ SubSeq(SelectText(main_query), 1, 4) = <<"SELECT ", escape_char, "a", escape_char>>

\* the LIMIT/OFFSET clause of the main query holds two non-negative integers
LimitOffsetNonNegative ==
    LET l == LimitText(main_query)
    IN l # <<>> => /\ Len(l) = 4
                   /\ l[1] = " LIMIT " /\ l[3] = " OFFSET "
                   /\ NumOf(l[2]) >= 0 /\ NumOf(l[4]) >= 0

\* both bounds are present and 0 <= startRow <= endRow
BoundsOrdered ==
    /\ Len(options.startRow) = 1 /\ Len(options.endRow) = 1
    /\ 0 <= options.startRow[1] /\ options.startRow[1] <= options.endRow[1]

\* the claim holds of the requests whose bounds are present and ordered
LimitOffsetOfOrderedBounds == (Built /\ BoundsOrdered) => LimitOffsetNonNegative

\* C28: whenever the main query has a LIMIT/OFFSET clause both of its
\* numbers are non-negative integers, for every accepted request: endRow
\* below startRow, a negative startRow, a missing startRow or endRow.
C28_LimitOffsetNonNegative == Built => LimitOffsetNonNegative

\* the request of the drill-down at depth d: the first d group keys
AtDepth(o, d) == [o EXCEPT !.groupKeys = Some(SubSeq(o.groupKeys[1], 1, d))]

\* the column of the k-th equality of the group path of a statement
GroupPathColumn(text, k) == WhereOf(Lex(text))[4 * (k - 1) + 1].v

\* the column the statements of the request use for its current group
\* column: SELECT, GROUP BY and COUNT(DISTINCT) name the same one
CurrentColumn(o, ec, tn) ==
    LET main == Lex(build_query(o, ec, tn))
        count == Lex(build_count_query(o, ec, tn))
    IN {SelectOf(main)[2].v, GroupByOf(main)[1].v, count[5].v}

\* for every expanded level k the WHERE group path and the whitelist of
\* ORDER BY use the column that the statements at depth k - 1 grouped by
SameColumnAtEveryLevel ==
    \A k \in 1..Len(options.groupKeys[1]) :
        k <= Len(options.rowGroupCols[1]) =>
            /\ CurrentColumn(AtDepth(options, k - 1), escape_char, DEFAULT_TABLE_NAME)
                   = {GroupPathColumn(main_query, k)}
            /\ GroupPathColumn(count_query, k) = GroupPathColumn(main_query, k)
            /\ GroupPathColumn(main_query, k) \in allowed_sort_cols(options)

\* no expanded group column has an id and a field that differ
IdAndFieldAgree ==
    \A k \in 1..Len(options.groupKeys[1]) :
        k <= Len(options.rowGroupCols[1]) =>
            LET c == options.rowGroupCols[1][k]
            IN Len(c.id) = 0 \/ Len(c.field) = 0 \/ c.id = c.field

\* the claim holds of the requests whose expanded columns have one name
SameColumnWhenKeysAgree == (Built /\ IdAndFieldAgree) => SameColumnAtEveryLevel

\* C29: across a drill-down the same database column stands for one
\* rowGroupCols entry everywhere: the column SELECT, GROUP BY and
\* COUNT(DISTINCT) use for it while it is the current group column is the
\* column the WHERE group path and the ORDER BY whitelist use for it once
\* its key is in groupKeys, also when its id and field differ or only one
\* of the two is present.
C29_SameColumnEverywhere == Built => SameColumnAtEveryLevel

\* the request with its null lists and mapping replaced by empty ones
Emptied(o) ==
    LET OrEmpty(x) == IF Len(x) = 0 THEN Some(<<>>) ELSE x
    IN [o EXCEPT !.sortModel = OrEmpty(@), !.filterModel = OrEmpty(@),
                 !.groupKeys = OrEmpty(@), !.rowGroupCols = OrEmpty(@),
                 !.valueCols = OrEmpty(@)]

\* the statements that were built are those of the request with empty fields
BuiltLikeEmptied ==
    /\ main_query # <<>>
         => main_query = build_query(Emptied(options), escape_char, DEFAULT_TABLE_NAME)
    /\ count_query # <<>>
         => count_query = build_count_query(Emptied(options), escape_char, DEFAULT_TABLE_NAME)

\* a null sortModel or filterModel alone does not make the builder raise
NullSortAndFilterAccepted ==
    (Len(options.groupKeys) = 1 /\ Len(options.rowGroupCols) = 1 /\ Len(options.valueCols) = 1)
        => ~BuildFailed

\* what holds of null fields: the statements that get built are those of the
\* emptied request, and a null sortModel or filterModel never raises
NullFieldsWhereBuilt == BuiltLikeEmptied /\ NullSortAndFilterAccepted

\* C30: a request whose sortModel, filterModel, groupKeys, rowGroupCols or
\* valueCols is null is built exactly like the request with those fields
\* empty: build_query and build_count_query return their text and do not
\* raise, grouped or not, with or without a sortModel.
C30_NullFieldsLikeEmpty == ~BuildFailed /\ BuiltLikeEmptied

====
